---- MODULE Spec2Model ----
(***************************************************************************)
(* She Nurtures AI: the request pipeline of the Express server             *)
(* (POST /api/chat and POST /api/symptom-check), in the four revisions     *)
(* of the server that the repository holds side by side:                   *)
(*   "v3.1"  src/server/server.js                                          *)
(*   "v3.1b" src/unnamed/part_001, lines    1-971  (also reports 3.1.0)    *)
(*   "v5.0"  src/unnamed/part_000, lines 1054-1839                         *)
(*   "v5.1"  src/unnamed/part_001, lines  972-1747                         *)
(* A request is followed from its arrival to its response; the two         *)
(* outbound calls (completion, speech) are the suspension points, and      *)
(* their outcomes are chosen by the environment.  The page's script        *)
(* (src/unnamed/part_000, lines 1-1053) is modelled beside it: the state   *)
(* of the tab, its audio elements, its requests and its retry timers.      *)
(*                                                                         *)
(* Strings are abstracted by the features the code reads: padding          *)
(* whitespace, length in characters, opening words, referral phrases,      *)
(* word and sentence counts, and leftover formatting.                      *)
(*                                                                         *)
(* Every record constructor names its fields in the order in which the     *)
(* names first occur in this module.  That is the order in which TLC       *)
(* keeps a record, so that a record shared by several workers is never     *)
(* rearranged while another worker reads it.                               *)
(***************************************************************************)
EXTENDS Integers, Sequences, FiniteSets, TLC

Revisions == {"v3.1", "v3.1b", "v5.0", "v5.1"}

Min(a, b) == IF a <= b THEN a ELSE b

(***************************************************************************)
(* Bounds of the model                                                     *)
(***************************************************************************)
\* longest symptom list a request submits
MaxSymptoms == 3
\* longest text, in characters, that the sanitizer is run on
MaxChars == 4
\* conversations that the page adds to its history
MaxAsked == 22
\* retry timers pending at once
MaxTimers == 2
\* media events queued and not yet dispatched, when a new one is caused
MaxEvents == 1

(***************************************************************************)
(* Program constants                                                       *)
(***************************************************************************)
\* userInput.trim().substring(0, 500)
MaxInputChars == 500
\* aiText.trim().length < 20 (server.js only)
MinResponseChars == 20
\* aiText.length < 50 after the formatting clean-up (v3.1b)
MinCleanedChars == 50
\* response.length < 100 in generateSymptomResponse (v3.1b)
MinSymptomResponseChars == 100
\* sanitizedText.length < 5 in generateSpeech
MinSpeechChars == 5
\* aiText.substring(0, 200) in /api/test-chat
TestSpeechChars == 200
\* this.conversationHistory.length > 20 in addToHistory (script.js)
MaxHistory == 20
\* this.maxRetries = 3 (script.js)
MaxRetries == 3
\* sanitizedText.substring(0, 1000) in generateSpeech
MaxSpeechChars == 1000
\* aiText.substring(0, 500) after the opening repair (v5.1)
MaxRepairedChars == 500
\* sentences[0].length > 20 in the opening repair (v5.1)
MinSalvageChars == 20
\* "I understand your concern. "
GeneralPrefixChars == 27
\* "Thank you for sharing these symptoms. "
SymptomPrefixChars == 38
\* words of "I understand your concern."
GeneralPrefixWords == 4
\* words of "Thank you for sharing these symptoms."
SymptomPrefixWords == 6

(***************************************************************************)
(* Texts                                                                   *)
(*   wording   which text this is (its words, in order)                    *)
(*   lead      leading whitespace characters                               *)
(*   trail     trailing whitespace characters                              *)
(*   comma     the trimmed text begins with ", "                           *)
(*   len       characters of the trimmed text                              *)
(*   start     the words the trimmed text (after a leading comma) opens    *)
(*             with                                                        *)
(*   phrases   the referral phrases the text contains (lower-cased)        *)
(*   recEnd    offset at which the first referral phrase ends, 0 if none   *)
(*   words     whitespace-separated words, list markers not counted        *)
(*   sentences non-empty pieces of a split on runs of . ! ?                *)
(*   firstLen  characters of the first sentence                            *)
(*   fmt       "none"; "bold" one **x** pair; "bullet" one "\n- " item     *)
(*             marker; "numbered" one "\n1. " item marker; "hyphen" a '-'  *)
(*             inside a word; "dash" one " - " between words; "star" one   *)
(*             unpaired '*'                                                *)
(*   prefixed  the v5.1 opening repair put its prefix in front             *)
(*   offTopic  the text contains one of the off-topic indicators (v3.1b)   *)
(***************************************************************************)
Text(w, ld, tr, cm, n, st, ph, re, wd, sn, fl, fm) ==
    [wording |-> w, lead |-> ld, trail |-> tr, comma |-> cm, len |-> n,
     start |-> st, phrases |-> ph, recEnd |-> re, words |-> wd,
     sentences |-> sn, firstLen |-> fl, fmt |-> fm, prefixed |-> FALSE,
     offTopic |-> FALSE]

NoText == Text("<none>", 0, 0, FALSE, 0, "", {}, 0, 0, 0, 0, "none")

\* String.prototype.length
Length(t) == t.lead + t.len + t.trail

\* String.prototype.trim
Trim(t) == [t EXCEPT !.lead = 0, !.trail = 0]

\* !aiText : the empty string is falsy
IsEmptyString(t) == Length(t) = 0


\* String.prototype.substring(0, n): words are taken to be evenly spread, and
\* a referral phrase survives when it ends within the first n characters
Substring(t, n) ==
    IF Length(t) <= n THEN t
    ELSE [t EXCEPT !.len = IF n > t.lead THEN Min(t.len, n - t.lead) ELSE 0,
                   !.lead = Min(t.lead, n),
                   !.trail = IF n > t.lead + t.len THEN n - t.lead - t.len ELSE 0,
                   !.words = IF n > t.lead /\ t.len > 0
                             THEN (t.words * Min(t.len, n - t.lead)) \div t.len
                             ELSE 0,
                   !.phrases = IF t.recEnd > 0 /\ t.lead + t.recEnd <= n
                               THEN t.phrases ELSE {},
                   !.recEnd = IF t.recEnd > 0 /\ t.lead + t.recEnd <= n
                              THEN t.recEnd ELSE 0]

\* a split that counts one piece too many: text.split(/\s+/) on a text that
\* ends in whitespace
WordCount_countsTrailingPiece(t) == t.words + 1

\* text.trim().split(/\s+/).length : the empty string splits into one piece
WordCount(t) == IF t.words = 0 THEN 1 ELSE t.words

(***************************************************************************)
(* The fixed texts of the four revisions                                   *)
(***************************************************************************)
\* server.js: the replacement of a response that is too short
ENHANCED_FALLBACK ==
    Text("ENHANCED_FALLBACK", 0, 0, FALSE, 310, "I understand",
         {"healthcare provider"}, 270, 44, 3, 65, "none")

\* server.js and v3.1b: the replacement of a generic refusal
REFUSAL_RESPONSE ==
    Text("REFUSAL_RESPONSE", 0, 0, FALSE, 353, "I understand",
         {"healthcare provider"}, 316, 48, 3, 65, "none")

\* server.js and v3.1b: fallbackResponse of the catch block, the same for
\* both modes
CONNECTION_FALLBACK ==
    Text("CONNECTION_FALLBACK", 0, 0, FALSE, 311, "I'm having trouble",
         {"healthcare provider"}, 222, 51, 3, 113, "none")

\* v3.1b: the replacements of an off-topic answer, by mode
OFF_TOPIC_SYMPTOM_FALLBACK ==
    Text("OFF_TOPIC_SYMPTOM_FALLBACK", 0, 0, FALSE, 711, "Thank you for sharing",
         {"healthcare provider"}, 624, 107, 4, 137, "dash")

OFF_TOPIC_GENERAL_FALLBACK ==
    Text("OFF_TOPIC_GENERAL_FALLBACK", 0, 0, FALSE, 486, "I understand",
         {"healthcare provider"}, 408, 70, 3, 135, "none")

\* v3.1b: the replacement of a text that the clean-up left too short
CLEANED_FALLBACK ==
    Text("CLEANED_FALLBACK", 0, 0, FALSE, 388, "I understand",
         {"healthcare provider", "medical professional"}, 286, 56, 3, 92, "none")

PERFECT_GENERAL_FALLBACK_v50 ==
    Text("PERFECT_GENERAL_FALLBACK_v50", 0, 0, FALSE, 387, "I understand",
         {"healthcare provider"}, 312, 54, 3, 135, "hyphen")

PERFECT_SYMPTOM_FALLBACK_v50 ==
    Text("PERFECT_SYMPTOM_FALLBACK_v50", 0, 0, FALSE, 491, "Thank you for sharing",
         {"healthcare provider"}, 446, 71, 4, 121, "hyphen")

PERFECT_GENERAL_FALLBACK_v51 ==
    Text("PERFECT_GENERAL_FALLBACK_v51", 0, 0, FALSE, 435, "I understand",
         {"healthcare provider", "consult"}, 354, 60, 4, 57, "none")

PERFECT_SYMPTOM_FALLBACK_v51 ==
    Text("PERFECT_SYMPTOM_FALLBACK_v51", 0, 0, FALSE, 446, "Thank you for sharing",
         {"healthcare provider", "consult"}, 382, 58, 5, 36, "none")

PERFECT_GENERAL_FALLBACK(r) ==
    IF r = "v5.0" THEN PERFECT_GENERAL_FALLBACK_v50 ELSE PERFECT_GENERAL_FALLBACK_v51

PERFECT_SYMPTOM_FALLBACK(r) ==
    IF r = "v5.0" THEN PERFECT_SYMPTOM_FALLBACK_v50 ELSE PERFECT_SYMPTOM_FALLBACK_v51

(***************************************************************************)
(* validateResponse (v5.0 and v5.1)                                        *)
(***************************************************************************)
\* String.prototype.toLowerCase, on the openings the model draws
ToLowerCase(s) ==
    CASE s = "I understand" -> "i understand"
      [] s = "Thank you for sharing" -> "thank you for sharing"
      [] s = "I can't provide medical advice" -> "i can't provide medical advice"
      [] s = "I am not a doctor" -> "i am not a doctor"
      [] s = "I cannot diagnose" -> "i cannot diagnose"
      [] s = "Consult a healthcare professional" -> "consult a healthcare professional"
      [] s = "I'm having trouble" -> "i'm having trouble"
      [] s = "PCOS is" -> "pcos is"
      [] OTHER -> s

\* startsWith on the lower-cased text and opening
StartsWith_ignoresCase(t, opening) ==
    t.lead = 0 /\ ~t.comma /\ t.len > 0 /\ ToLowerCase(t.start) = ToLowerCase(opening)

\* text.startsWith(opening) : case-sensitive, from the first character
StartsWith(t, opening) == t.lead = 0 /\ ~t.comma /\ t.len > 0 /\ t.start = opening

\* text.trim().toLowerCase().startsWith(opening.toLowerCase())
StartsWithIgnoreCase(t, opening) ==
    ~t.comma /\ t.len > 0 /\ ToLowerCase(t.start) = ToLowerCase(opening)

\* validateResponse (v5.0) whose isValid leaves the sentence count out while
\* the issues still report it
validateResponse_v50_ignoresSentences(t, isSymptomMode) ==
    LET maxWords == IF isSymptomMode THEN 100 ELSE 90
        minWords == IF isSymptomMode THEN 70 ELSE 60
        expectedSentences == IF isSymptomMode THEN 4 ELSE 3
        wordCount == WordCount(t)
        hasForbiddenFormatting == t.fmt # "none"
        hasRequiredStart ==
            IF isSymptomMode THEN StartsWith(t, "Thank you for sharing")
                             ELSE StartsWith(t, "I understand")
        hasHealthcareRecommendation ==
            t.phrases \cap {"healthcare provider", "medical professional", "doctor"} # {}
    IN [wordCount |-> wordCount,
        isValid |-> /\ ~hasForbiddenFormatting
                    /\ hasRequiredStart
                    /\ hasHealthcareRecommendation
                    /\ wordCount >= minWords
                    /\ wordCount <= maxWords,
        issues |-> [formatting |-> hasForbiddenFormatting,
                    wrongStart |-> ~hasRequiredStart,
                    noHealthcareRec |-> ~hasHealthcareRecommendation,
                    wrongLength |-> wordCount < minWords \/ wordCount > maxWords,
                    wrongSentenceCount |-> t.sentences # expectedSentences]]

validateResponse_v50(t, isSymptomMode) ==
    LET maxWords == IF isSymptomMode THEN 100 ELSE 90
        minWords == IF isSymptomMode THEN 70 ELSE 60
        expectedSentences == IF isSymptomMode THEN 4 ELSE 3
        wordCount == WordCount(t)
        hasForbiddenFormatting == t.fmt # "none"
        hasRequiredStart ==
            IF isSymptomMode THEN StartsWith(t, "Thank you for sharing")
                             ELSE StartsWith(t, "I understand")
        hasHealthcareRecommendation ==
            t.phrases \cap {"healthcare provider", "medical professional", "doctor"} # {}
    IN [wordCount |-> wordCount,
        isValid |-> /\ ~hasForbiddenFormatting
                    /\ hasRequiredStart
                    /\ hasHealthcareRecommendation
                    /\ wordCount >= minWords
                    /\ wordCount <= maxWords
                    /\ t.sentences = expectedSentences,
        issues |-> [formatting |-> hasForbiddenFormatting,
                    wrongStart |-> ~hasRequiredStart,
                    noHealthcareRec |-> ~hasHealthcareRecommendation,
                    wrongLength |-> wordCount < minWords \/ wordCount > maxWords,
                    wrongSentenceCount |-> t.sentences # expectedSentences]]

\* validateResponse (v5.1) with 'consult' among the accepted phrases
validateResponse_v51_acceptsConsult(t, isSymptomMode) ==
    LET maxWords == 110
        minWords == 50
        wordCount == WordCount(t)
        hasRequiredStart ==
            IF isSymptomMode THEN StartsWithIgnoreCase(t, "thank you for sharing")
                             ELSE StartsWithIgnoreCase(t, "i understand")
        hasHealthcareRecommendation ==
            t.phrases \cap {"healthcare provider", "consult", "consult a doctor",
                            "see a doctor", "medical professional"} # {}
    IN [wordCount |-> wordCount,
        isValid |-> /\ hasRequiredStart
                    /\ hasHealthcareRecommendation
                    /\ wordCount >= minWords
                    /\ wordCount <= maxWords,
        issues |-> [formatting |-> FALSE,
                    wrongStart |-> ~hasRequiredStart,
                    noHealthcareRec |-> ~hasHealthcareRecommendation,
                    wrongLength |-> wordCount < minWords \/ wordCount > maxWords,
                    wrongSentenceCount |-> FALSE]]

validateResponse_v51(t, isSymptomMode) ==
    LET maxWords == 110
        minWords == 50
        wordCount == WordCount(t)
        hasRequiredStart ==
            IF isSymptomMode THEN StartsWithIgnoreCase(t, "thank you for sharing")
                             ELSE StartsWithIgnoreCase(t, "i understand")
        hasHealthcareRecommendation ==
            t.phrases \cap {"healthcare provider", "consult a doctor",
                            "see a doctor", "medical professional"} # {}
    IN [wordCount |-> wordCount,
        isValid |-> /\ hasRequiredStart
                    /\ hasHealthcareRecommendation
                    /\ wordCount >= minWords
                    /\ wordCount <= maxWords,
        issues |-> [formatting |-> FALSE,
                    wrongStart |-> ~hasRequiredStart,
                    noHealthcareRec |-> ~hasHealthcareRecommendation,
                    wrongLength |-> wordCount < minWords \/ wordCount > maxWords,
                    wrongSentenceCount |-> FALSE]]

validateResponse(r, t, isSymptomMode) ==
    IF r = "v5.0" THEN validateResponse_v50(t, isSymptomMode)
                  ELSE validateResponse_v51(t, isSymptomMode)

(***************************************************************************)
(* The clean-up chain of generateResponse (v5.0 and v5.1)                  *)
(***************************************************************************)
\* characters that one marker of each kind loses in the replace chain:
\* "**x**" -> "x", "\n- " -> " ", "\n1. " -> " "
MarkerChars(fmt) ==
    CASE fmt = "bold" -> 4
      [] fmt = "bullet" -> 2
      [] fmt = "numbered" -> 3
      [] OTHER -> 0

\* .replace(/\*\*(.*?)\*\*/g,'$1') .replace(/\*(.*?)\*/g,'$1')
\* .replace(/\n\s*-\s*/g,' ') .replace(/\n\s*\d+\.\s*/g,' ')
\* .replace(/\s+/g,' ') .trim()
StripFormatting(t) ==
    LET cut == MarkerChars(t.fmt)
    IN [Trim(t) EXCEPT !.len = t.len - cut,
                       !.recEnd = IF t.recEnd > cut THEN t.recEnd - cut ELSE t.recEnd,
                       !.fmt = IF cut > 0 THEN "none" ELSE t.fmt]

\* .replace(/^[,\s]+/, '') on the trimmed content (v5.1 only)
StripLeadingComma(t) ==
    IF t.comma
    THEN [Trim(t) EXCEPT !.comma = FALSE, !.len = t.len - 2,
                         !.recEnd = IF t.recEnd > 2 THEN t.recEnd - 2 ELSE t.recEnd]
    ELSE Trim(t)

CleanUp(r, t) ==
    IF r = "v5.1" THEN StripFormatting(StripLeadingComma(t))
                  ELSE StripFormatting(t)

\* v5.1: a text that opens with neither phrase (in any letter case) and whose
\* first sentence is longer than 20 characters gets the prefix of its mode and
\* is cut to 500 characters
RepairOpening(t, isSymptomMode) ==
    IF StartsWithIgnoreCase(t, "I understand")
       \/ StartsWithIgnoreCase(t, "Thank you for sharing")
    THEN t
    ELSE IF t.sentences > 0 /\ t.firstLen > MinSalvageChars
         THEN LET pc == IF isSymptomMode THEN SymptomPrefixChars ELSE GeneralPrefixChars
                  pw == IF isSymptomMode THEN SymptomPrefixWords ELSE GeneralPrefixWords
                  joined == [t EXCEPT !.comma = FALSE,
                                      !.len = t.len + pc,
                                      !.start = IF isSymptomMode THEN "Thank you for sharing"
                                                                 ELSE "I understand",
                                      !.recEnd = IF t.recEnd > 0 THEN t.recEnd + pc ELSE 0,
                                      !.words = t.words + pw,
                                      !.sentences = t.sentences + 1,
                                      !.firstLen = pc - 2,
                                      !.prefixed = TRUE]
              IN Substring(joined, MaxRepairedChars)
         ELSE t


(***************************************************************************)
(* The symptom catalog                                                     *)
(***************************************************************************)
SYMPTOM_DESCRIPTIONS ==
    [irregular_periods |-> "irregular menstrual cycles",
     missed_periods |-> "absent menstruation",
     heavy_periods |-> "heavy menstrual bleeding",
     painful_periods |-> "severe menstrual pain",
     weight_gain |-> "unexplained weight gain or difficulty losing weight",
     acne |-> "persistent acne or skin issues",
     hair_growth |-> "excess hair growth on face or body",
     hair_loss |-> "hair thinning or male-pattern baldness",
     fatigue |-> "chronic fatigue or low energy",
     mood_changes |-> "mood swings, anxiety, or depression",
     sleep_issues |-> "sleep disturbances or insomnia",
     fertility_issues |-> "difficulty conceiving or fertility concerns",
     cravings |-> "intense food cravings, especially for carbohydrates",
     headaches |-> "frequent headaches or migraines"]

\* characters of each description
DescriptionChars ==
    [irregular_periods |-> 26, missed_periods |-> 19, heavy_periods |-> 24,
     painful_periods |-> 21, weight_gain |-> 51, acne |-> 30, hair_growth |-> 34,
     hair_loss |-> 38, fatigue |-> 29, mood_changes |-> 35, sleep_issues |-> 30,
     fertility_issues |-> 43, cravings |-> 51, headaches |-> 31]

\* words of each description
DescriptionWords ==
    [irregular_periods |-> 3, missed_periods |-> 2, heavy_periods |-> 3,
     painful_periods |-> 3, weight_gain |-> 7, acne |-> 5, hair_growth |-> 7,
     hair_loss |-> 5, fatigue |-> 5, mood_changes |-> 5, sleep_issues |-> 4,
     fertility_issues |-> 5, cravings |-> 6, headaches |-> 4]

\* names every object inherits from Object.prototype; they are no own keys
InheritedKeys == {"toString", "constructor", "hasOwnProperty"}

(***************************************************************************)
(* Values of a JSON request body.  type is the result of typeof, except    *)
(* "undefined" for a missing field, "null" and "array"; v is the string of *)
(* a string value; truthy says whether !value is false.                    *)
(***************************************************************************)
JsString(v) == [v |-> v, type |-> "string", truthy |-> v # ""]
JsNumber(v) == [v |-> v, type |-> "number", truthy |-> v # "0"]

\* the catalog test written as: symptom in SYMPTOM_DESCRIPTIONS
IsValidSymptom_inherited(x) ==
    x.type = "string" /\ x.v \in (DOMAIN SYMPTOM_DESCRIPTIONS) \cup InheritedKeys

\* typeof symptom === 'string' && SYMPTOM_DESCRIPTIONS.hasOwnProperty(symptom)
IsValidSymptom(x) == x.type = "string" /\ x.v \in DOMAIN SYMPTOM_DESCRIPTIONS

\* a filter that keeps every string and forgets the catalog
FilterValidSymptoms_stringsOnly(items) ==
    SelectSeq(items, LAMBDA x : x.type = "string")

\* symptoms.filter(...)
FilterValidSymptoms(items) == SelectSeq(items, IsValidSymptom)

\* symptoms.map(symptom => SYMPTOM_DESCRIPTIONS[symptom] || symptom)
DescribeSymptoms(symptoms) ==
    [i \in 1..Len(symptoms) |->
        IF symptoms[i].v \in DOMAIN SYMPTOM_DESCRIPTIONS
        THEN SYMPTOM_DESCRIPTIONS[symptoms[i].v]
        ELSE symptoms[i].v]

\* !symptoms || !Array.isArray(symptoms) || symptoms.length === 0
SymptomsRejected(s) == ~s.truthy \/ s.type # "array" \/ Len(s.items) = 0

\* the input check without the trim: userInput.length === 0
ChatInputRejected_noTrim(t) == ~t.truthy \/ t.type # "string" \/ Length(t.str) = 0

\* !userInput || typeof userInput !== 'string' || userInput.trim().length === 0
ChatInputRejected(t) == ~t.truthy \/ t.type # "string" \/ Length(Trim(t.str)) = 0

\* the two calls in the other order: userInput.substring(0, 500).trim()
SanitizeInput_cutsBeforeTrim(str) == Trim(Substring(str, MaxInputChars))

\* userInput.trim().substring(0, 500)
SanitizeInput(str) == Substring(Trim(str), MaxInputChars)

(***************************************************************************)
(* Responses                                                               *)
(***************************************************************************)
NoData ==
    [audioData |-> "undefined", text |-> NoText, isFallback |-> FALSE,
     service |-> "undefined", voiceName |-> "undefined", mimeType |-> "undefined",
     mode |-> "undefined", hasAnalyzedSymptoms |-> FALSE, analyzedSymptoms |-> << >>,
     aiResponse |-> NoText]

NoResponse ==
    [status |-> 0, success |-> FALSE, error |-> "", details |-> "undefined", data |-> NoData]

\* res.status(400).json({ success: false, error })
BadRequest(error) == [NoResponse EXCEPT !.status = 400, !.error = error]

\* what a caught error says of itself (error.message), by where it was thrown
TypeErrorMessage == "symptoms.map is not a function"
CompletionErrorMessage == "Invalid response structure from OpenRouter"
TooShortMessage == "Azure TTS generation failed: Text is too short for audio generation"
SpeechErrorMessage(kind) ==
    CASE kind = "throw" -> "Azure TTS generation failed: request to the speech endpoint failed"
      [] kind = "non2xx" -> "Azure TTS generation failed: Azure TTS API Error: 401 - <errorText>"
      [] OTHER -> "Azure TTS generation failed: Empty audio response from Azure TTS"

\* details: process.env.NODE_ENV === 'development' ? error.message : undefined
Details(env, message) == IF env = "development" THEN message ELSE "undefined"

\* the catch block of /api/chat and /api/symptom-check:
\* res.status(500).json({ success: false, error, details })
ServerError(error, details) ==
    [NoResponse EXCEPT !.status = 500, !.error = error, !.details = details]

\* the catch block of /api/test-chat and /api/test-symptom-check:
\* res.status(500).json({ success: false, error: error.message })
TestFailed(message) == [NoResponse EXCEPT !.status = 500, !.error = message]

\* res.json({ success: true, data }) : the status stays 200
Success(data) == [NoResponse EXCEPT !.status = 200, !.success = TRUE, !.data = data]

VOICE_CONFIGS == <<"Aria (Friendly Female)", "Jenny (Warm Female)", "Sara (Gentle Female)">>

\* FallbackResponseService.generateFallbackResponse(text, type)
generateFallbackResponse(text, type) ==
    [NoData EXCEPT !.audioData = "null", !.text = text, !.isFallback = TRUE,
                   !.service = "fallback", !.mode = type]

\* the try branch with isFallback read as "the text is a fallback text"
SpeechResponse_flagsFallbackText(ttsResult, aiText, mode) ==
    [NoData EXCEPT !.audioData = ttsResult.audioData, !.text = aiText,
                   !.isFallback = aiText \in {CONNECTION_FALLBACK, ENHANCED_FALLBACK,
                                              PERFECT_GENERAL_FALLBACK_v50,
                                              PERFECT_SYMPTOM_FALLBACK_v50,
                                              PERFECT_GENERAL_FALLBACK_v51,
                                              PERFECT_SYMPTOM_FALLBACK_v51},
                   !.service = "azure-tts",
                   !.voiceName = ttsResult.voiceName, !.mimeType = ttsResult.mimeType,
                   !.mode = mode]

\* the audioResponse a handler builds when generateSpeech returned
SpeechResponse(ttsResult, aiText, mode) ==
    [NoData EXCEPT !.audioData = ttsResult.audioData, !.text = aiText,
                   !.isFallback = FALSE, !.service = "azure-tts",
                   !.voiceName = ttsResult.voiceName, !.mimeType = ttsResult.mimeType,
                   !.mode = mode]

\* analyzedSymptoms: validSymptoms, set on both audioResponse branches of
\* /api/symptom-check
WithAnalyzedSymptoms(data, symptoms) ==
    [data EXCEPT !.hasAnalyzedSymptoms = TRUE, !.analyzedSymptoms = symptoms]


(***************************************************************************)
(* OpenRouterService                                                       *)
(* A completion outcome o has o.kind:                                      *)
(*   "throw"      fetch rejects (network error)                            *)
(*   "non2xx"     !response.ok                                             *)
(*   "badjson"    response.json() rejects                                  *)
(*   "nochoices"  the body lacks choices[0].message                        *)
(*   "nocontent"  message.content is undefined or null                     *)
(*   "nonstring"  message.content is no string                             *)
(*   "ok"         message.content is the string o.content                  *)
(* The result is [threw, text]: threw when the promise rejects.            *)
(***************************************************************************)
GenericRefusalPhrases ==
    {"I can't provide medical advice", "I am not a doctor", "I cannot diagnose",
     "consult a healthcare professional"}

\* genericRefusalPhrases.some(phrase =>
\*     aiText.toLowerCase().trim().startsWith(phrase.toLowerCase()))
StartsWithRefusal(t) == \E phrase \in GenericRefusalPhrases : StartsWithIgnoreCase(t, phrase)

\* generateResponse of server.js without the check of the length
generateResponse_v31_unchecked(o) ==
    IF o.kind # "ok"
    THEN [text |-> CONNECTION_FALLBACK, threw |-> FALSE]
    ELSE LET raw == o.content
             answered == IF StartsWithRefusal(raw) THEN REFUSAL_RESPONSE ELSE raw
         IN [text |-> Trim(answered), threw |-> FALSE]

\* generateResponse of server.js with a catch block that rethrows
generateResponse_v31_rethrows(o) ==
    IF o.kind # "ok"
    THEN [text |-> NoText, threw |-> TRUE]
    ELSE LET raw == o.content
             sized == IF IsEmptyString(raw) \/ Length(Trim(raw)) < MinResponseChars
                      THEN ENHANCED_FALLBACK ELSE raw
             answered == IF StartsWithRefusal(sized) THEN REFUSAL_RESPONSE ELSE sized
         IN [text |-> Trim(answered), threw |-> FALSE]

\* server.js: every failure, and the TypeError that a missing or non-string
\* content raises at aiText.length / aiText.substring, ends in the catch block
generateResponse_v31(o) ==
    IF o.kind # "ok"
    THEN [text |-> CONNECTION_FALLBACK, threw |-> FALSE]
    ELSE LET raw == o.content
             sized == IF IsEmptyString(raw) \/ Length(Trim(raw)) < MinResponseChars
                      THEN ENHANCED_FALLBACK ELSE raw
             answered == IF StartsWithRefusal(sized) THEN REFUSAL_RESPONSE ELSE sized
         IN [text |-> Trim(answered), threw |-> FALSE]

\* generateResponse of v5.0 and v5.1 with a fallback that ignores the mode
generateResponse_v5_generalOnly(r, o, isSymptomMode) ==
    LET fallback == PERFECT_GENERAL_FALLBACK(r)
    IN IF o.kind # "ok"
       THEN [text |-> fallback, threw |-> FALSE]
       ELSE LET cleaned == CleanUp(r, o.content)
                aiText == IF r = "v5.1" THEN RepairOpening(cleaned, isSymptomMode)
                                        ELSE cleaned
                validation == validateResponse(r, aiText, isSymptomMode)
            IN [text |-> IF validation.isValid THEN aiText ELSE fallback,
                threw |-> FALSE]

\* v5.0 and v5.1: clean up, (v5.1) repair the opening, validate, substitute
generateResponse_v5(r, o, isSymptomMode) ==
    LET fallback == IF isSymptomMode THEN PERFECT_SYMPTOM_FALLBACK(r)
                                     ELSE PERFECT_GENERAL_FALLBACK(r)
    IN IF o.kind # "ok"
       THEN [text |-> fallback, threw |-> FALSE]
       ELSE LET cleaned == CleanUp(r, o.content)
                aiText == IF r = "v5.1" THEN RepairOpening(cleaned, isSymptomMode)
                                        ELSE cleaned
                validation == validateResponse(r, aiText, isSymptomMode)
            IN [text |-> IF validation.isValid THEN aiText ELSE fallback,
                threw |-> FALSE]

\* v3.1b: aiText.includes('**') || aiText.includes('*') ||
\* aiText.includes('- ') || aiText.includes('1.') || aiText.includes('\u2022')
HasFormatting_v31b(t) == t.fmt \in {"bold", "star", "bullet", "numbered", "dash"}

\* characters that one marker of each kind loses in the v3.1b replace chain:
\* "**x**" -> "x", "*" -> "", "\n- " -> " ", "\n1. " -> " ", " - " -> " "
MarkerChars_v31b(fmt) ==
    CASE fmt = "bold" -> 4
      [] fmt = "star" -> 1
      [] fmt = "bullet" -> 2
      [] fmt = "numbered" -> 3
      [] fmt = "dash" -> 2
      [] OTHER -> 0

\* .replace(/\*\*/g,'') .replace(/\*/g,'') .replace(/- /g,'')
\* .replace(/\d+\./g,'') .replace(/\u2022/g,'') .replace(/\n+/g,' ')
\* .replace(/\s+/g,' ') .trim()
StripFormatting_v31b(t) ==
    LET cut == MarkerChars_v31b(t.fmt)
    IN [Trim(t) EXCEPT !.len = t.len - cut,
                       !.recEnd = IF t.recEnd > cut THEN t.recEnd - cut ELSE t.recEnd,
                       !.fmt = "none"]

\* v3.1b: an off-topic answer is replaced by the text of the mode, a
\* formatted one is cleaned (and replaced when fewer than 50 characters are
\* left), a generic refusal is replaced; nothing replaces a short answer
generateResponse_v31b(o, isSymptomMode) ==
    IF o.kind # "ok"
    THEN [text |-> CONNECTION_FALLBACK, threw |-> FALSE]
    ELSE LET raw == o.content
             onTopic == IF raw.offTopic
                        THEN (IF isSymptomMode THEN OFF_TOPIC_SYMPTOM_FALLBACK
                                               ELSE OFF_TOPIC_GENERAL_FALLBACK)
                        ELSE raw
             stripped == StripFormatting_v31b(onTopic)
             plain == IF HasFormatting_v31b(onTopic)
                      THEN (IF Length(stripped) < MinCleanedChars THEN CLEANED_FALLBACK
                                                                  ELSE stripped)
                      ELSE onTopic
             answered == IF StartsWithRefusal(plain) THEN REFUSAL_RESPONSE ELSE plain
         IN [text |-> Trim(answered), threw |-> FALSE]

generateResponse(r, o, isSymptomMode) ==
    CASE r = "v3.1" -> generateResponse_v31(o)
      [] r = "v3.1b" -> generateResponse_v31b(o, isSymptomMode)
      [] OTHER -> generateResponse_v5(r, o, isSymptomMode)

RECURSIVE JoinedChars(_)
\* length of descriptions.join(', ')
JoinedChars(symptoms) ==
    IF symptoms = << >> THEN 0
    ELSE DescriptionChars[Head(symptoms).v]
         + (IF Tail(symptoms) = << >> THEN 0 ELSE 2 + JoinedChars(Tail(symptoms)))

RECURSIVE JoinedWords(_)
\* words of descriptions.join(', ')
JoinedWords(symptoms) ==
    IF symptoms = << >> THEN 0
    ELSE DescriptionWords[Head(symptoms).v] + JoinedWords(Tail(symptoms))

\* v3.1b: the text that stands in for a symptom response shorter than 100
\* characters; it names the descriptions of the submitted symptoms
TailoredSymptomFallback(symptoms) ==
    Text("TAILORED_SYMPTOM_FALLBACK", 0, 0, FALSE, 717 + JoinedChars(symptoms),
         "Thank you for sharing", {"healthcare provider"}, 602 + JoinedChars(symptoms),
         107 + JoinedWords(symptoms), 4, 132, "dash")

\* generateSymptomResponse: server.js and v3.1b rethrow what generateResponse
\* throws, v5.0 and v5.1 answer PERFECT_SYMPTOM_FALLBACK instead; v3.1b
\* replaces a response shorter than 100 characters
generateSymptomResponse(r, o, symptoms) ==
    LET response == generateResponse(r, o, TRUE)
    IN CASE response.threw /\ r \in {"v5.0", "v5.1"} ->
              [text |-> PERFECT_SYMPTOM_FALLBACK(r), threw |-> FALSE]
         [] ~response.threw /\ r = "v3.1b"
                /\ Length(response.text) < MinSymptomResponseChars ->
              [text |-> TailoredSymptomFallback(symptoms), threw |-> FALSE]
         [] OTHER -> response

(***************************************************************************)
(* AzureTTSService                                                         *)
(* A speech outcome has kind "throw" (fetch rejects), "non2xx", or "ok"    *)
(* with bytes, the size of the audio body (0: an empty body).              *)
(***************************************************************************)
\* !sanitizedText || sanitizedText.length < 5
SpeechTooShort(text) == Length(Trim(text)) < MinSpeechChars

\* the text given to generateSSML without the cut
ProcessedText_uncut(text) == Trim(text)

\* sanitizedText.substring(0, 1000)
ProcessedText(text) == Substring(Trim(text), MaxSpeechChars)

\* this.VOICE_CONFIGS[voiceIndex] || this.VOICE_CONFIGS[0]
SelectedVoice(voiceIndex) ==
    IF voiceIndex + 1 \in DOMAIN VOICE_CONFIGS THEN VOICE_CONFIGS[voiceIndex + 1]
                                               ELSE VOICE_CONFIGS[1]

\* audioBuffer.toString('base64')
ToBase64(bytes) == IF bytes = 0 THEN "" ELSE "<base64>"

\* callAzureTTS: throws on a rejected fetch, a non-2xx status, an empty body
callAzureTTS(o) ==
    IF o.kind = "ok" /\ o.bytes > 0
    THEN [message |-> "", threw |-> FALSE, bytes |-> o.bytes]
    ELSE [message |-> SpeechErrorMessage(o.kind), threw |-> TRUE, bytes |-> 0]

\* generateSpeech after its await: [threw] or the ttsResult
generateSpeech(o, voiceIndex) ==
    LET audioBuffer == callAzureTTS(o)
    IN [audioData |-> IF audioBuffer.threw THEN "undefined" ELSE ToBase64(audioBuffer.bytes),
        voiceName |-> SelectedVoice(voiceIndex),
        mimeType |-> "audio/wav",
        message |-> audioBuffer.message,
        threw |-> audioBuffer.threw]


(***************************************************************************)
(* State of one request                                                    *)
(***************************************************************************)
VARIABLES
    rev,        \* the revision of the server that runs
    nodeEnv,    \* process.env.NODE_ENV
    pc,         \* "idle", "awaitCompletion", "awaitSpeech", "done"
    endpoint,   \* "none", "chat" (POST /api/chat), "symptom" (POST /api/symptom-check)
    body,       \* req.body: [text, symptoms]
    validSymptoms,  \* validSymptoms of /api/symptom-check
    prompt,     \* what the completion call was given: [system, user, symptoms]
    completion, \* the outcome the completion call had
    aiText,     \* aiText of the handler
    speechArg,  \* the text that generateSpeech was called with
    ttsText,    \* processedText, the text inside the SSML sent to the speech endpoint
    voice,      \* voiceIndex of the generateSpeech call
    speech,     \* the outcome the speech call had
    calls,      \* the outbound calls made, in order
    upstream,   \* the outbound call the handler awaits: "none", "pending"
                \* (its fetch has not settled yet), "silent" (it never will)
    res,        \* the HTTP response
    validation, \* what validateResponse returned for aiText, when it is run
                \* on its own
    chars,      \* a text as its characters, and what the clean-up chain
                \* makes of it: [raw, once, twice]
    parked,     \* the locals of the handler of a second request, which waits
                \* at an await (or has not started, or is done) while the
                \* handler of the first runs
    running,    \* 1 or 2: the request whose handler's locals the variables
                \* above hold
    tab         \* the page in the browser: appState and what the script keeps
                \* alive beside it (audio elements, calls of process..., timers)

vars == <<rev, nodeEnv, pc, endpoint, body, validSymptoms, prompt, completion, aiText,
          speechArg, ttsText, voice, speech, calls, upstream, res, validation, chars,
          parked, running, tab>>

\* the second request and the page
elsewhere == <<parked, running, tab>>

\* the variables that only the functions run on their own use
apart == <<validation, chars>>

(***************************************************************************)
(* The inputs the environment draws                                        *)
(***************************************************************************)
JsUndefined == [type |-> "undefined", truthy |-> FALSE, items |-> << >>, str |-> NoText]
JsNull == [type |-> "object", truthy |-> FALSE, items |-> << >>, str |-> NoText]
JsZero == [type |-> "number", truthy |-> FALSE, items |-> << >>, str |-> NoText]
JsTruthyNumber == [type |-> "number", truthy |-> TRUE, items |-> << >>, str |-> NoText]
JsObject == [type |-> "object", truthy |-> TRUE, items |-> << >>, str |-> NoText]
JsText(str) == [type |-> "string", truthy |-> Length(str) > 0, items |-> << >>, str |-> str]
JsArray(items) == [type |-> "array", truthy |-> TRUE, items |-> items, str |-> NoText]

\* a string of the user: lead blanks, n characters, trail blanks
UserString(ld, n, tr) == Text("user text", ld, tr, FALSE, n, "", {}, 0, 0, 0, 0, "none")

UserStrings ==
    {UserString(0, 0, 0), UserString(3, 0, 0), UserString(0, 13, 0), UserString(2, 13, 1),
     UserString(0, 500, 0), UserString(0, 501, 0), UserString(0, 600, 0),
     UserString(0, 450, 150), UserString(100, 480, 20), UserString(50, 550, 0)}

ChatTexts ==
    {JsUndefined, JsNull, JsZero, JsTruthyNumber, JsObject, JsArray(<< >>)}
    \cup {JsText(str) : str \in UserStrings}

SymptomItems ==
    {JsString("acne"), JsString("weight_gain"), JsString("moonburn"),
     JsString("toString"), JsNumber("7")}

SymptomLists == UNION {[1..n -> SymptomItems] : n \in 0..MaxSymptoms}

SymptomValues ==
    {JsUndefined, JsNull, JsObject, JsText(UserString(0, 4, 0))}
    \cup {JsArray(items) : items \in SymptomLists}

\* the values of symptoms sent to /api/test-symptom-check
TestSymptomValues ==
    {JsUndefined, JsNull, JsObject, JsText(UserString(0, 4, 0)), JsArray(<< >>),
     JsArray(<<JsString("acne")>>), JsArray(<<JsString("fatigue"), JsString("acne")>>)}

GoodGeneral ==
    Text("general answer", 0, 0, FALSE, 520, "I understand",
         {"healthcare provider"}, 500, 80, 3, 60, "none")

GoodSymptom ==
    Text("symptom answer", 0, 0, FALSE, 560, "Thank you for sharing",
         {"healthcare provider"}, 540, 85, 4, 70, "none")

GeneratedTexts ==
    {GoodGeneral, GoodSymptom,
     [GoodGeneral EXCEPT !.lead = 2, !.trail = 1],
     [GoodGeneral EXCEPT !.wording = "answer without referral", !.phrases = {}, !.recEnd = 0],
     [GoodGeneral EXCEPT !.wording = "answer with consult", !.phrases = {"consult"}],
     [GoodGeneral EXCEPT !.wording = "answer in lower case", !.start = "i understand"],
     [GoodGeneral EXCEPT !.wording = "answer in bold", !.len = 524, !.fmt = "bold"],
     [GoodGeneral EXCEPT !.wording = "answer with a list", !.len = 522, !.fmt = "bullet"],
     [GoodGeneral EXCEPT !.wording = "answer with a hyphen", !.fmt = "hyphen"],
     [GoodGeneral EXCEPT !.wording = "answer with a star", !.fmt = "star"],
     [GoodGeneral EXCEPT !.wording = "answer after a comma", !.len = 522, !.comma = TRUE],
     Text("refusal", 0, 0, FALSE, 180, "I am not a doctor",
          {"doctor", "healthcare provider"}, 17, 30, 2, 60, "none"),
     Text("referral only", 1, 0, FALSE, 90, "Consult a healthcare professional",
          {"consult"}, 7, 14, 1, 89, "none"),
     Text("", 0, 0, FALSE, 0, "", {}, 0, 0, 0, 0, "none"),
     Text("", 3, 0, FALSE, 0, "", {}, 0, 0, 0, 0, "none"),
     Text("ok", 1, 1, FALSE, 3, "Ok", {}, 0, 1, 1, 2, "none"),
     Text("nineteen characters", 0, 0, FALSE, 19, "PCOS is", {}, 0, 4, 1, 18, "none"),
     Text("twenty characters", 0, 2, FALSE, 20, "PCOS is", {}, 0, 4, 1, 19, "none"),
     Text("answer with another opening", 0, 0, FALSE, 430, "PCOS is",
          {"healthcare provider"}, 410, 70, 3, 45, "none"),
     Text("long answer with another opening", 0, 0, FALSE, 600, "PCOS is",
          {"healthcare provider"}, 580, 95, 4, 45, "none"),
     Text("long answer", 0, 0, FALSE, 1200, "I understand",
          {"healthcare provider"}, 1180, 180, 9, 60, "none"),
     [GoodGeneral EXCEPT !.wording = "answer with numbers", !.len = 523, !.fmt = "numbered"],
     [GoodGeneral EXCEPT !.wording = "answer with a dash", !.fmt = "dash"],
     [GoodGeneral EXCEPT !.wording = "answer off the topic", !.offTopic = TRUE],
     Text("short answer in bold", 0, 0, FALSE, 40, "PCOS is", {}, 0, 6, 1, 39, "bold")}

CompletionOutcomes ==
    {[kind |-> k, content |-> NoText] :
        k \in {"throw", "non2xx", "badjson", "nochoices", "nocontent", "nonstring"}}
    \cup {[kind |-> "ok", content |-> t] : t \in GeneratedTexts}

SpeechOutcomes ==
    {[kind |-> "throw", bytes |-> 0], [kind |-> "non2xx", bytes |-> 0],
     [kind |-> "ok", bytes |-> 0], [kind |-> "ok", bytes |-> 2048]}

NoOutcome == [kind |-> "none", content |-> NoText]
NoSpeech == [kind |-> "none", bytes |-> 0]
NoPrompt == [symptoms |-> << >>, system |-> "", user |-> NoText]
NoValidation ==
    [wordCount |-> 0, isValid |-> FALSE,
     issues |-> [formatting |-> FALSE, wrongStart |-> FALSE, noHealthcareRec |-> FALSE,
                 wrongLength |-> FALSE, wrongSentenceCount |-> FALSE]]
NoChars == [raw |-> << >>, once |-> << >>, twice |-> << >>]

\* new AppState(), no audio element, no request, no timer, the page shown
TabAtStart ==
    [isLoading |-> FALSE, currentAudio |-> 0, conversationHistory |-> << >>,
     retryCount |-> 0, isPlaying |-> FALSE, currentMode |-> "general",
     audios |-> << >>, events |-> << >>, procs |-> << >>, timers |-> 0,
     hidden |-> FALSE, interrupted |-> 0, added |-> 0]

\* the locals of a handler that has not started
NoLocals ==
    [pc |-> "idle", aiText |-> NoText,
     endpoint |-> "none",
     body |-> [symptoms |-> JsUndefined, text |-> JsUndefined], validSymptoms |-> << >>, prompt |-> NoPrompt,
     completion |-> NoOutcome, speechArg |-> NoText, ttsText |-> NoText, voice |-> 0,
     speech |-> NoSpeech, calls |-> << >>, upstream |-> "none", res |-> NoResponse]

\* NODE_ENV as the process is started
NodeEnvs == {"development", "production"}

Init ==
    /\ rev \in Revisions
    /\ nodeEnv \in NodeEnvs
    /\ pc = "idle"
    /\ endpoint = "none"
    /\ body = [symptoms |-> JsUndefined, text |-> JsUndefined]
    /\ validSymptoms = << >>
    /\ prompt = NoPrompt
    /\ completion = NoOutcome
    /\ aiText = NoText
    /\ speechArg = NoText
    /\ ttsText = NoText
    /\ voice = 0
    /\ speech = NoSpeech
    /\ calls = << >>
    /\ upstream = "none"
    /\ res = NoResponse
    /\ parked = NoLocals
    /\ running = 1
    /\ tab = TabAtStart
    /\ validation = NoValidation
    /\ chars = NoChars

(***************************************************************************)
(* The handlers, cut at their await points                                 *)
(***************************************************************************)
\* the handler with both calls started at once, the speech call on the
\* user's text
ChatStart_fansOut(b) ==
    IF ChatInputRejected(b.text)
    THEN [pc |-> "done", prompt |-> NoPrompt, calls |-> << >>,
          res |-> BadRequest("Invalid input. Please provide a non-empty text message.")]
    ELSE [pc |-> "awaitCompletion", prompt |-> [symptoms |-> << >>,
                                                system |-> "GENERAL_SYSTEM_PROMPT", user |-> SanitizeInput(b.text.str)],
          calls |-> <<"completion", "speech">>,
          res |-> NoResponse]

\* app.post('/api/chat') up to the await of generateResponse
ChatStart(b) ==
    IF ChatInputRejected(b.text)
    THEN [pc |-> "done", prompt |-> NoPrompt, calls |-> << >>,
          res |-> BadRequest("Invalid input. Please provide a non-empty text message.")]
    ELSE [pc |-> "awaitCompletion", prompt |-> [symptoms |-> << >>,
                                                system |-> "GENERAL_SYSTEM_PROMPT", user |-> SanitizeInput(b.text.str)],
          calls |-> <<"completion">>,
          res |-> NoResponse]

\* the handler with the completion call started before the list is filtered
SymptomStart_checksAfterCall(b) ==
    IF SymptomsRejected(b.symptoms)
    THEN [pc |-> "done", validSymptoms |-> << >>, prompt |-> NoPrompt, calls |-> << >>,
          res |-> BadRequest("Invalid input. Please provide an array of symptoms.")]
    ELSE LET valid == FilterValidSymptoms(b.symptoms.items)
         IN IF Len(valid) = 0
            THEN [pc |-> "done", validSymptoms |-> valid, prompt |-> NoPrompt,
                  calls |-> <<"completion">>,
                  res |-> BadRequest("No valid symptoms provided.")]
            ELSE [pc |-> "awaitCompletion", validSymptoms |-> valid,
                  prompt |-> [symptoms |-> DescribeSymptoms(valid),
                              system |-> "SYMPTOM_SYSTEM_PROMPT",
                              user |-> [NoText EXCEPT !.wording = "userQuery"]],
                  calls |-> <<"completion">>,
                  res |-> NoResponse]

\* app.post('/api/symptom-check') up to the await of generateSymptomResponse
SymptomStart(b) ==
    IF SymptomsRejected(b.symptoms)
    THEN [pc |-> "done", validSymptoms |-> << >>, prompt |-> NoPrompt, calls |-> << >>,
          res |-> BadRequest("Invalid input. Please provide an array of symptoms.")]
    ELSE LET valid == FilterValidSymptoms(b.symptoms.items)
         IN IF Len(valid) = 0
            THEN [pc |-> "done", validSymptoms |-> valid, prompt |-> NoPrompt,
                  calls |-> << >>,
                  res |-> BadRequest("No valid symptoms provided.")]
            ELSE [pc |-> "awaitCompletion", validSymptoms |-> valid,
                  prompt |-> [symptoms |-> DescribeSymptoms(valid),
                              system |-> "SYMPTOM_SYSTEM_PROMPT",
                              user |-> [NoText EXCEPT !.wording = "userQuery"]],
                  calls |-> <<"completion">>,
                  res |-> NoResponse]

ChatRequest(b) ==
    /\ pc = "idle"
    /\ endpoint' = "chat"
    /\ body' = b
    /\ LET s == ChatStart(b)
       IN /\ pc' = s.pc
          /\ calls' = calls \o s.calls
          /\ upstream' = IF s.pc = "awaitCompletion" THEN "pending" ELSE "none"
          /\ prompt' = s.prompt
          /\ res' = s.res
    /\ UNCHANGED <<rev, nodeEnv, validSymptoms, completion, aiText, speechArg, ttsText, voice, speech>>
    /\ UNCHANGED apart
    /\ UNCHANGED elsewhere

SymptomRequest(b) ==
    /\ pc = "idle"
    /\ endpoint' = "symptom"
    /\ body' = b
    /\ LET s == SymptomStart(b)
       IN /\ pc' = s.pc
          /\ calls' = calls \o s.calls
          /\ upstream' = IF s.pc = "awaitCompletion" THEN "pending" ELSE "none"
          /\ prompt' = s.prompt
          /\ validSymptoms' = s.validSymptoms
          /\ res' = s.res
    /\ UNCHANGED <<rev, nodeEnv, completion, aiText, speechArg, ttsText, voice, speech>>
    /\ UNCHANGED apart
    /\ UNCHANGED elsewhere

\* the revisions that have /api/test-chat and /api/test-symptom-check
TestRevisions == {"v3.1", "v3.1b"}

TestEndpoints == {"test-chat", "test-symptom"}

\* req.body.text || "Hello! This is a test message ..."
DEFAULT_TEST_TEXT ==
    Text("DEFAULT_TEST_TEXT", 0, 0, FALSE, 80, "Hello!", {}, 0, 15, 3, 5, "none")

\* req.body.symptoms || ['irregular_periods', 'acne', 'weight_gain']
DEFAULT_TEST_SYMPTOMS ==
    <<JsString("irregular_periods"), JsString("acne"), JsString("weight_gain")>>

\* app.post('/api/test-chat') up to the await of generateResponse: the text
\* is neither checked nor trimmed nor cut
TestChatStart(b) ==
    LET testText == IF ~b.text.truthy THEN DEFAULT_TEST_TEXT
                    ELSE IF b.text.type = "string" THEN b.text.str
                    ELSE [NoText EXCEPT !.wording = "no string"]
    IN [pc |-> "awaitCompletion", prompt |-> [symptoms |-> << >>, system |-> "GENERAL_SYSTEM_PROMPT",
                                              user |-> testText],
        calls |-> <<"completion">>,
        res |-> NoResponse]

\* app.post('/api/test-symptom-check') up to the await inside
\* generateSymptomResponse: symptoms.map throws a TypeError when the value is
\* truthy and no array, and the handler's catch answers with its message
TestSymptomStart(b) ==
    LET testSymptoms == IF b.symptoms.truthy THEN b.symptoms
                                             ELSE JsArray(DEFAULT_TEST_SYMPTOMS)
    IN IF testSymptoms.type # "array"
       THEN [pc |-> "done", validSymptoms |-> << >>, prompt |-> NoPrompt,
             calls |-> << >>, res |-> TestFailed(TypeErrorMessage)]
       ELSE [pc |-> "awaitCompletion", validSymptoms |-> testSymptoms.items,
             prompt |-> [symptoms |-> DescribeSymptoms(testSymptoms.items),
                         system |-> "SYMPTOM_SYSTEM_PROMPT",
                         user |-> [NoText EXCEPT !.wording = "userQuery"]],
             calls |-> <<"completion">>,
             res |-> NoResponse]

TestChatRequest(b) ==
    /\ pc = "idle"
    /\ rev \in TestRevisions
    /\ endpoint' = "test-chat"
    /\ body' = b
    /\ LET s == TestChatStart(b)
       IN /\ pc' = s.pc
          /\ calls' = calls \o s.calls
          /\ upstream' = "pending"
          /\ prompt' = s.prompt
          /\ res' = s.res
    /\ UNCHANGED <<rev, nodeEnv, validSymptoms, completion, aiText, speechArg, ttsText, voice,
                   speech>>
    /\ UNCHANGED apart
    /\ UNCHANGED elsewhere

TestSymptomRequest(b) ==
    /\ pc = "idle"
    /\ rev \in TestRevisions
    /\ endpoint' = "test-symptom"
    /\ body' = b
    /\ LET s == TestSymptomStart(b)
       IN /\ pc' = s.pc
          /\ calls' = calls \o s.calls
          /\ upstream' = IF s.pc = "awaitCompletion" THEN "pending" ELSE "none"
          /\ prompt' = s.prompt
          /\ validSymptoms' = s.validSymptoms
          /\ res' = s.res
    /\ UNCHANGED <<rev, nodeEnv, completion, aiText, speechArg, ttsText, voice, speech>>
    /\ UNCHANGED apart
    /\ UNCHANGED elsewhere

Mode(ep) == IF ep = "symptom" THEN "symptom" ELSE "general"

\* generateSpeech(aiText) for /api/chat, generateSpeech(aiText, 2) for
\* /api/symptom-check
VoiceIndex(ep) == IF ep \in {"symptom", "test-symptom"} THEN 2 ELSE 0

\* generateSpeech(aiText.substring(0, 200)) in /api/test-chat
SpeechArgument(ep, text) ==
    IF ep = "test-chat" THEN Substring(text, TestSpeechChars) ELSE text

\* data of the success response of a test endpoint
TestData(ep, tts, text) ==
    [NoData EXCEPT !.aiResponse = text, !.audioData = tts.audioData,
                   !.service = "azure-tts", !.voiceName = tts.voiceName,
                   !.mode = IF ep = "test-chat" THEN "general" ELSE "undefined"]

\* the audioResponse with a catch branch that leaves analyzedSymptoms out
AudioResponse_forgetsSymptoms(ep, tts, text, symptoms) ==
    IF tts.threw
    THEN generateFallbackResponse(text, Mode(ep))
    ELSE IF ep = "symptom"
         THEN WithAnalyzedSymptoms(SpeechResponse(tts, text, Mode(ep)), symptoms)
         ELSE SpeechResponse(tts, text, Mode(ep))

\* the audioResponse of a handler: the try branch when generateSpeech
\* returned, the catch branch when it threw
AudioResponse(ep, tts, text, symptoms) ==
    LET made == IF tts.threw THEN generateFallbackResponse(text, Mode(ep))
                             ELSE SpeechResponse(tts, text, Mode(ep))
    IN IF ep = "symptom" THEN WithAnalyzedSymptoms(made, symptoms) ELSE made

\* what generateSpeech yields when it throws before it calls the endpoint
SpeechNotAttempted ==
    [audioData |-> "undefined", voiceName |-> "undefined", mimeType |-> "audio/wav",
     message |-> TooShortMessage, threw |-> TRUE]

\* what a handler answers once generateSpeech has returned or thrown: the
\* test endpoints have no inner try and answer 500 with the message
Answer(ep, tts, text, symptoms) ==
    IF ep \in TestEndpoints
    THEN IF tts.threw THEN TestFailed(tts.message) ELSE Success(TestData(ep, tts, text))
    ELSE Success(AudioResponse(ep, tts, text, symptoms))

\* the completion call settles: the rest of generateResponse, then the
\* handler goes on to generateSpeech, which runs up to its fetch
CompletionReturns(o) ==
    /\ pc = "awaitCompletion"
    /\ upstream = "pending"
    /\ completion' = o
    /\ LET gen == IF endpoint \in {"chat", "test-chat"}
                  THEN generateResponse(rev, o, FALSE)
                  ELSE generateSymptomResponse(rev, o, validSymptoms)
           spoken == SpeechArgument(endpoint, gen.text)
       IN IF gen.threw
          THEN /\ res' = CASE endpoint \in TestEndpoints -> TestFailed(CompletionErrorMessage)
                            [] endpoint = "chat" -> ServerError(
                                 "An error occurred while processing your request. Please try again.",
                                 Details(nodeEnv, CompletionErrorMessage))
                            [] OTHER -> ServerError(
                                 "An error occurred while analyzing your symptoms. Please try again.",
                                 Details(nodeEnv, CompletionErrorMessage))
               /\ pc' = "done"
               /\ upstream' = "none"
               /\ UNCHANGED <<aiText, speechArg, ttsText, voice, calls>>
          ELSE /\ aiText' = gen.text
               /\ speechArg' = spoken
               /\ voice' = VoiceIndex(endpoint)
               /\ IF SpeechTooShort(spoken)
                  THEN /\ res' = Answer(endpoint, SpeechNotAttempted, gen.text, validSymptoms)
                       /\ pc' = "done"
                       /\ upstream' = "none"
                       /\ UNCHANGED <<ttsText, calls>>
                  ELSE /\ ttsText' = ProcessedText(spoken)
                       /\ calls' = Append(calls, "speech")
                       /\ pc' = "awaitSpeech"
                       /\ upstream' = "pending"
                       /\ UNCHANGED res
    /\ UNCHANGED <<rev, nodeEnv, endpoint, body, validSymptoms, prompt, speech>>
    /\ UNCHANGED apart
    /\ UNCHANGED elsewhere

\* the speech call settles: the rest of generateSpeech, then the handler
\* assembles and sends the response
SpeechReturns(o) ==
    /\ pc = "awaitSpeech"
    /\ upstream = "pending"
    /\ speech' = o
    /\ res' = Answer(endpoint, generateSpeech(o, voice), aiText, validSymptoms)
    /\ pc' = "done"
    /\ upstream' = "none"
    /\ UNCHANGED <<rev, nodeEnv, endpoint, body, validSymptoms, prompt, completion, aiText,
                   speechArg, ttsText, voice, calls>>
    /\ UNCHANGED apart
    /\ UNCHANGED elsewhere

\* the endpoint that was called never answers: the fetch of generateResponse
\* or of callAzureTTS is given no timeout and no abort signal, so its promise
\* never settles and the handler stays at its await
CallNeverReturns ==
    /\ pc \in {"awaitCompletion", "awaitSpeech"}
    /\ upstream = "pending"
    /\ upstream' = "silent"
    /\ UNCHANGED <<rev, nodeEnv, pc, endpoint, body, validSymptoms, prompt, completion, aiText,
                   speechArg, ttsText, voice, speech, calls, res>>
    /\ UNCHANGED apart
    /\ UNCHANGED elsewhere

AnyCompletionReturns == \E o \in CompletionOutcomes : CompletionReturns(o)

AnySpeechReturns == \E o \in SpeechOutcomes : SpeechReturns(o)

Next ==
    \/ \E t \in ChatTexts : ChatRequest([symptoms |-> JsUndefined, text |-> t])
    \/ \E s \in SymptomValues : SymptomRequest([symptoms |-> s, text |-> JsUndefined])
    \/ \E t \in ChatTexts : TestChatRequest([symptoms |-> JsUndefined, text |-> t])
    \/ \E s \in TestSymptomValues :
            TestSymptomRequest([symptoms |-> s, text |-> JsUndefined])
    \/ AnyCompletionReturns
    \/ AnySpeechReturns
    \/ CallNeverReturns

Spec == Init /\ [][Next]_vars

\* the same machine when every answer that has arrived is handled: the event
\* loop runs the continuation of a settled promise
FairSpec == Spec /\ WF_vars(AnyCompletionReturns) /\ WF_vars(AnySpeechReturns)


(***************************************************************************)
(* Two requests at once.  Node runs one handler at a time and switches     *)
(* only where a handler awaits; each handler keeps req, res and its consts *)
(* and lets in its own closure, and the module-level names (the keys, the  *)
(* prompts, SYMPTOM_DESCRIPTIONS, VOICE_CONFIGS) are never assigned.       *)
(***************************************************************************)
\* the locals of the running handler
Locals ==
    [pc |-> pc, aiText |-> aiText, endpoint |-> endpoint, body |-> body,
     validSymptoms |-> validSymptoms, prompt |-> prompt, completion |-> completion,
     speechArg |-> speechArg, ttsText |-> ttsText, voice |-> voice, speech |-> speech,
     calls |-> calls, upstream |-> upstream, res |-> res]

\* the switch with aiText as a name of the module, shared by the handlers
Yield_sharesAiText ==
    /\ parked' = Locals
    /\ running' = 3 - running
    /\ pc' = parked.pc
    /\ endpoint' = parked.endpoint
    /\ body' = parked.body
    /\ validSymptoms' = parked.validSymptoms
    /\ prompt' = parked.prompt
    /\ completion' = parked.completion
    /\ aiText' = aiText
    /\ speechArg' = parked.speechArg
    /\ ttsText' = parked.ttsText
    /\ voice' = parked.voice
    /\ speech' = parked.speech
    /\ calls' = parked.calls
    /\ upstream' = parked.upstream
    /\ res' = parked.res
    /\ UNCHANGED <<rev, nodeEnv, tab>>
    /\ UNCHANGED apart

\* the event loop goes from one handler to the other: the running handler
\* is at an await, has answered or has not started
Yield ==
    /\ parked' = Locals
    /\ running' = 3 - running
    /\ pc' = parked.pc
    /\ endpoint' = parked.endpoint
    /\ body' = parked.body
    /\ validSymptoms' = parked.validSymptoms
    /\ prompt' = parked.prompt
    /\ completion' = parked.completion
    /\ aiText' = parked.aiText
    /\ speechArg' = parked.speechArg
    /\ ttsText' = parked.ttsText
    /\ voice' = parked.voice
    /\ speech' = parked.speech
    /\ calls' = parked.calls
    /\ upstream' = parked.upstream
    /\ res' = parked.res
    /\ UNCHANGED <<rev, nodeEnv, tab>>
    /\ UNCHANGED apart

\* the bodies and outcomes drawn for the two requests
PairChatTexts == {JsUndefined, JsText(UserString(0, 13, 0)), JsText(UserString(2, 13, 1))}

PairSymptomValues ==
    {JsNull, JsArray(<<JsString("acne")>>),
     JsArray(<<JsString("weight_gain"), JsString("moonburn")>>)}

PairCompletionOutcomes ==
    {[kind |-> "throw", content |-> NoText], [kind |-> "ok", content |-> GoodGeneral],
     [kind |-> "ok", content |-> GoodSymptom],
     [kind |-> "ok", content |-> Text("ok", 1, 1, FALSE, 3, "Ok", {}, 0, 1, 1, 2, "none")]}

NextConcurrent ==
    \/ \E t \in PairChatTexts : ChatRequest([symptoms |-> JsUndefined, text |-> t])
    \/ \E s \in PairSymptomValues : SymptomRequest([symptoms |-> s, text |-> JsUndefined])
    \/ \E o \in PairCompletionOutcomes : CompletionReturns(o)
    \/ AnySpeechReturns
    \/ Yield

ConcurrentSpec == Init /\ [][NextConcurrent]_vars


(***************************************************************************)
(* validateResponse run on its own: a text and a mode are drawn, the text  *)
(* may go through the clean-up chain, and validateResponse is applied      *)
(***************************************************************************)
Openings ==
    {"I understand", "i understand", "Thank you for sharing", "thank you for sharing",
     "PCOS is"}

\* the referral phrases a text can contain; a text with "consult a doctor"
\* also contains "consult" and "doctor"
ReferralSets ==
    {{}, {"healthcare provider"}, {"medical professional"}, {"doctor"}, {"consult"},
     {"consult", "doctor", "consult a doctor"}, {"doctor", "see a doctor"}}

\* the edges of the three word-count bands, and their neighbours
WordCounts == {49, 50, 59, 60, 69, 70, 90, 91, 100, 101, 110, 111}

SentenceCounts == {3, 4, 5}

Formats == {"none", "bold", "star", "hyphen"}

Paddings == {0, 2}

CandidateText(st, ph, wd, sn, fm, ld) ==
    Text("candidate", ld, 0, FALSE, 6 * wd + MarkerChars(fm), st, ph,
         IF ph = {} THEN 0 ELSE 6 * wd - 1, wd, sn, 60, fm)

CandidateTexts ==
    {CandidateText(st, ph, wd, sn, fm, ld) :
        st \in Openings, ph \in ReferralSets, wd \in WordCounts,
        sn \in SentenceCounts, fm \in Formats, ld \in Paddings}
    \cup {PERFECT_GENERAL_FALLBACK_v50, PERFECT_SYMPTOM_FALLBACK_v50,
          PERFECT_GENERAL_FALLBACK_v51, PERFECT_SYMPTOM_FALLBACK_v51}

InitValidator ==
    /\ rev \in {"v5.0", "v5.1"}
    /\ nodeEnv = "production"
    /\ pc = "generated"
    /\ endpoint \in {"chat", "symptom"}
    /\ aiText \in CandidateTexts
    /\ validation = NoValidation
    /\ chars = NoChars
    /\ body = [symptoms |-> JsUndefined, text |-> JsUndefined]
    /\ validSymptoms = << >>
    /\ prompt = NoPrompt
    /\ completion = NoOutcome
    /\ speechArg = NoText
    /\ ttsText = NoText
    /\ voice = 0
    /\ speech = NoSpeech
    /\ calls = << >>
    /\ upstream = "none"
    /\ res = NoResponse
    /\ parked = NoLocals
    /\ running = 1
    /\ tab = TabAtStart

\* the clean-up chain of generateResponse, applied to the drawn text
SanitizeText ==
    /\ pc = "generated"
    /\ aiText' = CleanUp(rev, aiText)
    /\ pc' = "sanitized"
    /\ UNCHANGED <<rev, nodeEnv, endpoint, body, validSymptoms, prompt, completion, speechArg,
                   ttsText, voice, speech, calls, upstream, res, validation, chars>>
    /\ UNCHANGED elsewhere

\* const validation = validateResponse(aiText, isSymptomMode)
ValidateText ==
    /\ pc \in {"generated", "sanitized"}
    /\ validation' = validateResponse(rev, aiText, endpoint = "symptom")
    /\ pc' = "validated"
    /\ UNCHANGED <<rev, nodeEnv, endpoint, body, validSymptoms, prompt, completion, aiText,
                   speechArg, ttsText, voice, speech, calls, upstream, res, chars>>
    /\ UNCHANGED elsewhere

NextValidator == SanitizeText \/ ValidateText

ValidatorSpec == InitValidator /\ [][NextValidator]_vars

(***************************************************************************)
(* The clean-up chains on the characters of a text.  A text is a sequence  *)
(* of one-character strings; "\n" is the line break.                       *)
(***************************************************************************)
\* \s of a regular expression
IsSpace(c) == c \in {" ", "\n"}

\* \d of a regular expression
IsDigit(c) == c = "1"

RECURSIVE SkipSpaces(_, _)
\* the first index from i on that holds no whitespace (Len(s) + 1 if none)
SkipSpaces(s, i) ==
    IF i <= Len(s) /\ IsSpace(s[i]) THEN SkipSpaces(s, i + 1) ELSE i

RECURSIVE SkipSpacesBack(_, _)
\* the last index up to i that holds no whitespace (0 if none)
SkipSpacesBack(s, i) ==
    IF i >= 1 /\ IsSpace(s[i]) THEN SkipSpacesBack(s, i - 1) ELSE i

RECURSIVE SkipDigits(_, _)
SkipDigits(s, i) ==
    IF i <= Len(s) /\ IsDigit(s[i]) THEN SkipDigits(s, i + 1) ELSE i

RECURSIVE SkipCommasAndSpaces(_, _)
SkipCommasAndSpaces(s, i) ==
    IF i <= Len(s) /\ (IsSpace(s[i]) \/ s[i] = ",") THEN SkipCommasAndSpaces(s, i + 1)
                                                     ELSE i

\* String.prototype.trim
TrimChars(s) == SubSeq(s, SkipSpaces(s, 1), SkipSpacesBack(s, Len(s)))

\* k asterisks stand at index i
StarsAt(s, i, k) == i + k - 1 <= Len(s) /\ \A d \in 0..(k - 1) : s[i + d] = "*"

RECURSIVE FindClose(_, _, _)
\* (.*?) followed by k asterisks: the first index from j on where k asterisks
\* stand, reached without passing a line break; 0 if there is none
FindClose(s, j, k) ==
    IF j + k - 1 > Len(s) THEN 0
    ELSE IF StarsAt(s, j, k) THEN j
    ELSE IF s[j] = "\n" THEN 0
    ELSE FindClose(s, j + 1, k)

RECURSIVE UnwrapEmphasis(_, _, _)
\* .replace(/\*\*(.*?)\*\*/g, '$1') for k = 2, .replace(/\*(.*?)\*/g, '$1')
\* for k = 1, from index i on
UnwrapEmphasis(s, i, k) ==
    IF i > Len(s) THEN << >>
    ELSE LET j == IF StarsAt(s, i, k) THEN FindClose(s, i + k, k) ELSE 0
         IN IF j > 0 THEN SubSeq(s, i + k, j - 1) \o UnwrapEmphasis(s, j + k, k)
                     ELSE <<s[i]>> \o UnwrapEmphasis(s, i + 1, k)

RECURSIVE RemoveListMarkers(_, _, _)
\* .replace(/\n\s*-\s*/g, ' ') and, when numbered, 
\* .replace(/\n\s*\d+\.\s*/g, ' '), from index i on
RemoveListMarkers(s, i, numbered) ==
    IF i > Len(s) THEN << >>
    ELSE LET j == SkipSpaces(s, i + 1)
             d == IF numbered THEN SkipDigits(s, j) ELSE j
             marked == /\ s[i] = "\n"
                       /\ d <= Len(s)
                       /\ IF numbered THEN d > j /\ s[d] = "." ELSE s[d] = "-"
         IN IF marked THEN <<" ">> \o RemoveListMarkers(s, SkipSpaces(s, d + 1), numbered)
                      ELSE <<s[i]>> \o RemoveListMarkers(s, i + 1, numbered)

RECURSIVE CollapseWhitespace(_, _)
\* .replace(/\s+/g, ' ') from index i on
CollapseWhitespace(s, i) ==
    IF i > Len(s) THEN << >>
    ELSE IF IsSpace(s[i]) THEN <<" ">> \o CollapseWhitespace(s, SkipSpaces(s, i))
    ELSE <<s[i]>> \o CollapseWhitespace(s, i + 1)

\* .replace(/^[,\s]+/, '')
StripLeadingCommaChars(s) == SubSeq(s, SkipCommasAndSpaces(s, 1), Len(s))

\* v5.0 and v5.1: content.trim() and the replace chain of generateResponse
CleanUpChars(r, s) ==
    LET trimmed == TrimChars(s)
        opened == IF r = "v5.1" THEN StripLeadingCommaChars(trimmed) ELSE trimmed
        plain == UnwrapEmphasis(UnwrapEmphasis(opened, 1, 2), 1, 1)
        unlisted == RemoveListMarkers(RemoveListMarkers(plain, 1, FALSE), 1, TRUE)
    IN TrimChars(CollapseWhitespace(unlisted, 1))

\* aiText.includes(x) for a text x of one or two characters
Includes(s, x) ==
    \E i \in 1..Len(s) : /\ i + Len(x) - 1 <= Len(s)
                          /\ SubSeq(s, i, i + Len(x) - 1) = x

RECURSIVE RemoveDashSpace(_, _)
\* .replace(/- /g, '') from index i on
RemoveDashSpace(s, i) ==
    IF i > Len(s) THEN << >>
    ELSE IF s[i] = "-" /\ i < Len(s) /\ s[i + 1] = " " THEN RemoveDashSpace(s, i + 2)
    ELSE <<s[i]>> \o RemoveDashSpace(s, i + 1)

RECURSIVE RemoveNumbers(_, _)
\* .replace(/\d+\./g, '') from index i on
RemoveNumbers(s, i) ==
    IF i > Len(s) THEN << >>
    ELSE LET d == SkipDigits(s, i)
         IN IF d > i /\ d <= Len(s) /\ s[d] = "." THEN RemoveNumbers(s, d + 1)
            ELSE <<s[i]>> \o RemoveNumbers(s, i + 1)

\* v3.1b: the formatting clean-up of generateResponse, run when the text
\* has one of the markers: .replace(/\*\*/g,'') .replace(/\*/g,'')
\* .replace(/- /g,'') .replace(/\d+\./g,'') .replace(/\n+/g,' ')
\* .replace(/\s+/g,' ') .trim()
CleanFormattingChars_v31b(s) ==
    IF \/ Includes(s, <<"*", "*">>) \/ Includes(s, <<"*">>)
       \/ Includes(s, <<"-", " ">>) \/ Includes(s, <<"1", ".">>)
    THEN LET starless == SelectSeq(s, LAMBDA c : c # "*")
             unlisted == RemoveNumbers(RemoveDashSpace(starless, 1), 1)
             oneLine == [i \in 1..Len(unlisted) |->
                            IF unlisted[i] = "\n" THEN " " ELSE unlisted[i]]
         IN TrimChars(CollapseWhitespace(oneLine, 1))
    ELSE s

\* the sanitizer of a revision
SanitizeChars(r, s) ==
    IF r = "v3.1b" THEN CleanFormattingChars_v31b(s) ELSE CleanUpChars(r, s)

(***************************************************************************)
(* The sanitizer run on its own: a text is drawn, sanitized, and the       *)
(* result is sanitized once more                                           *)
(***************************************************************************)
Alphabet == {"a", " ", "\n", "*", "-", ",", "1", "."}

DrawnTexts == UNION {[1..n -> Alphabet] : n \in 0..MaxChars}

InitSanitizer ==
    /\ rev \in {"v3.1b", "v5.0", "v5.1"}
    /\ nodeEnv = "production"
    /\ pc = "generated"
    /\ chars \in {[raw |-> s, once |-> << >>, twice |-> << >>] : s \in DrawnTexts}
    /\ endpoint = "none"
    /\ aiText = NoText
    /\ validation = NoValidation
    /\ body = [symptoms |-> JsUndefined, text |-> JsUndefined]
    /\ validSymptoms = << >>
    /\ prompt = NoPrompt
    /\ completion = NoOutcome
    /\ speechArg = NoText
    /\ ttsText = NoText
    /\ voice = 0
    /\ speech = NoSpeech
    /\ calls = << >>
    /\ upstream = "none"
    /\ res = NoResponse
    /\ parked = NoLocals
    /\ running = 1
    /\ tab = TabAtStart

\* the sanitizer applied to the generated text
SanitizeOnce ==
    /\ pc = "generated"
    /\ chars' = [chars EXCEPT !.once = SanitizeChars(rev, chars.raw)]
    /\ pc' = "sanitized"
    /\ UNCHANGED <<rev, nodeEnv, endpoint, body, validSymptoms, prompt, completion, aiText, speechArg,
                   ttsText, voice, speech, calls, upstream, res, validation>>
    /\ UNCHANGED elsewhere

\* the sanitizer applied to its own result
SanitizeAgain ==
    /\ pc = "sanitized"
    /\ chars' = [chars EXCEPT !.twice = SanitizeChars(rev, chars.once)]
    /\ pc' = "resanitized"
    /\ UNCHANGED <<rev, nodeEnv, endpoint, body, validSymptoms, prompt, completion, aiText, speechArg,
                   ttsText, voice, speech, calls, upstream, res, validation>>
    /\ UNCHANGED elsewhere

NextSanitizer == SanitizeOnce \/ SanitizeAgain

SanitizerSpec == InitSanitizer /\ [][NextSanitizer]_vars

(***************************************************************************)
(* Vocabulary of the properties                                            *)
(***************************************************************************)
(* escapeSSML run on its own: the processed text is written into the SSML  *)
(* document with its markup characters as entity references, and the       *)
(* speech endpoint reads the character data back out of the document.      *)
(***************************************************************************)
RECURSIVE ReplaceAll(_, _, _)
\* text.replace(/c/g, by) for a single character c
ReplaceAll(s, c, by) ==
    IF s = << >> THEN << >>
    ELSE (IF Head(s) = c THEN by ELSE <<Head(s)>>) \o ReplaceAll(Tail(s), c, by)

\* the entity references escapeSSML writes, and the characters they stand for
Entities ==
    <<[char |-> "&", ref |-> <<"&", "a", "m", "p", ";">>],
      [char |-> "<", ref |-> <<"&", "l", "t", ";">>],
      [char |-> ">", ref |-> <<"&", "g", "t", ";">>],
      [char |-> "\"", ref |-> <<"&", "q", "u", "o", "t", ";">>],
      [char |-> "'", ref |-> <<"&", "a", "p", "o", "s", ";">>]>>

\* the replacements with the ampersand replaced last
escapeSSML_ampersandLast(s) ==
    LET by(k, t) == ReplaceAll(t, Entities[k].char, Entities[k].ref)
    IN by(1, by(5, by(4, by(3, by(2, s)))))

\* escapeSSML: & first, then < > " '
escapeSSML(s) ==
    LET by(k, t) == ReplaceAll(t, Entities[k].char, Entities[k].ref)
    IN by(5, by(4, by(3, by(2, by(1, s)))))

\* s continues at position i with the characters of ref
RefAt(s, i, ref) ==
    /\ i + Len(ref) - 1 <= Len(s)
    /\ SubSeq(s, i, i + Len(ref) - 1) = ref

RECURSIVE ReadCharacterData(_, _)
\* what a reader of the SSML document takes the text to be: each entity
\* reference stands for its character
ReadCharacterData(s, i) ==
    IF i > Len(s) THEN << >>
    ELSE IF \E k \in DOMAIN Entities : RefAt(s, i, Entities[k].ref)
         THEN LET k == CHOOSE n \in DOMAIN Entities : RefAt(s, i, Entities[n].ref)
              IN <<Entities[k].char>> \o ReadCharacterData(s, i + Len(Entities[k].ref))
         ELSE <<s[i]>> \o ReadCharacterData(s, i + 1)

EscapeAlphabet == {"a", "l", "t", ";", "&", "<", "'"}

ProcessedTexts == UNION {[1..n -> EscapeAlphabet] : n \in 0..MaxChars}

InitEscape ==
    /\ rev \in Revisions
    /\ nodeEnv = "production"
    /\ pc = "processed"
    /\ chars \in {[raw |-> s, once |-> << >>, twice |-> << >>] : s \in ProcessedTexts}
    /\ endpoint = "none"
    /\ aiText = NoText
    /\ validation = NoValidation
    /\ body = [symptoms |-> JsUndefined, text |-> JsUndefined]
    /\ validSymptoms = << >>
    /\ prompt = NoPrompt
    /\ completion = NoOutcome
    /\ speechArg = NoText
    /\ ttsText = NoText
    /\ voice = 0
    /\ speech = NoSpeech
    /\ calls = << >>
    /\ upstream = "none"
    /\ res = NoResponse
    /\ parked = NoLocals
    /\ running = 1
    /\ tab = TabAtStart

\* generateSSML writes ${this.escapeSSML(text)} into the document
EscapeText ==
    /\ pc = "processed"
    /\ chars' = [chars EXCEPT !.once = escapeSSML(chars.raw)]
    /\ pc' = "escaped"
    /\ UNCHANGED <<rev, nodeEnv, endpoint, body, validSymptoms, prompt, completion, aiText,
                   speechArg, ttsText, voice, speech, calls, upstream, res, validation>>
    /\ UNCHANGED elsewhere

\* the speech endpoint reads the document
ReadText ==
    /\ pc = "escaped"
    /\ chars' = [chars EXCEPT !.twice = ReadCharacterData(chars.once, 1)]
    /\ pc' = "read"
    /\ UNCHANGED <<rev, nodeEnv, endpoint, body, validSymptoms, prompt, completion, aiText,
                   speechArg, ttsText, voice, speech, calls, upstream, res, validation>>
    /\ UNCHANGED elsewhere

NextEscape == EscapeText \/ ReadText

EscapeSpec == InitEscape /\ [][NextEscape]_vars


(***************************************************************************)
(* The page (script.js).  tab has the fields of appState                   *)
(*   isLoading, isPlaying, currentMode, retryCount                         *)
(*   currentAudio         0 for null, else the number of an audio element  *)
(*   conversationHistory  its entries; the k-th entry ever added is k      *)
(* and what the script and the document keep beside it                     *)
(*   audios      the paused attribute of every audio element that is       *)
(*               current, plays, is awaited or has an event queued         *)
(*   events      the media events queued and not yet dispatched            *)
(*   procs       the calls of processGeneralInput / processSymptomCheck    *)
(*               that are suspended: [pc, audio] with pc                   *)
(*               "awaitResponse" (the fetch of makeRequest) or             *)
(*               "awaitAudio" (the promise of playAudio)                   *)
(*   timers      the number of retry timers that are pending               *)
(*   hidden      document.hidden                                           *)
(*   interrupted the audio that handleVisibilityChange paused, until       *)
(*               something else acts on the audio; 0 for none              *)
(*   added       how many times addToHistory has been called               *)
(* The audio controls are taken to be within reach whenever there is a     *)
(* current audio; a hidden page gets no clicks.                            *)
(***************************************************************************)
\* a number that f has not given out
FreeId(f) == CHOOSE n \in 1..(Cardinality(DOMAIN f) + 1) : n \notin DOMAIN f

\* f without x
Without(f, x) == [y \in (DOMAIN f) \ {x} |-> f[y]]

\* audio.pause(): the attribute changes at once, the pause event is queued
pause(t, a) ==
    IF t.audios[a] THEN t
    ELSE [t EXCEPT !.audios[a] = TRUE,
                   !.events = Append(@, [kind |-> "pause", audio |-> a])]

\* audio.play(): the attribute changes at once, the play event is queued
play(t, a) ==
    IF ~t.audios[a] THEN t
    ELSE [t EXCEPT !.audios[a] = FALSE,
                   !.events = Append(@, [kind |-> "play", audio |-> a])]

\* setCurrentAudio that leaves the previous audio alone
setCurrentAudio_keepsPrevious(t, a) ==
    [t EXCEPT !.currentAudio = a, !.interrupted = 0]

\* AppState.setCurrentAudio
setCurrentAudio(t, a) ==
    LET stopped == IF t.currentAudio # 0 /\ ~t.audios[t.currentAudio]
                   THEN pause(t, t.currentAudio) ELSE t
    IN [stopped EXCEPT !.currentAudio = a, !.interrupted = 0]

\* UIController.stopCurrentAudio
stopCurrentAudio(t) ==
    IF t.currentAudio # 0 /\ ~t.audios[t.currentAudio]
    THEN [pause(t, t.currentAudio) EXCEPT !.isPlaying = FALSE]
    ELSE t

\* addToHistory that drops the entry it has just pushed
addToHistory_dropsNewest(t) ==
    LET pushed == Append(t.conversationHistory, t.added + 1)
    IN [t EXCEPT !.added = @ + 1,
                 !.conversationHistory =
                     IF Len(pushed) > MaxHistory
                     THEN SubSeq(pushed, 1, Len(pushed) - 1) ELSE pushed]

\* AppState.addToHistory: push, then shift when there are more than 20
addToHistory(t) ==
    LET pushed == Append(t.conversationHistory, t.added + 1)
    IN [t EXCEPT !.added = @ + 1,
                 !.conversationHistory =
                     IF Len(pushed) > MaxHistory THEN Tail(pushed) ELSE pushed]

\* AppState.canRetry
canRetry(t) == t.retryCount < MaxRetries

\* processGeneralInput / processSymptomCheck without the test of isLoading
process_unguarded(t, valid) ==
    IF ~valid THEN [t EXCEPT !.isLoading = FALSE]
    ELSE LET stopped == stopCurrentAudio(t)
         IN [stopped EXCEPT
                !.isLoading = TRUE,
                !.interrupted = 0,
                !.procs = @ @@ (FreeId(@) :>
                              [pc |-> "awaitResponse", audio |-> 0])]

\* processGeneralInput / processSymptomCheck (the two have one shape) up to
\* the await of the request:
\* return when isLoading; an input that fails the check returns through
\* finally; else stopCurrentAudio, setLoading(true) and the request is sent
process(t, valid) ==
    IF t.isLoading THEN t
    ELSE IF ~valid THEN [t EXCEPT !.isLoading = FALSE]
    ELSE LET stopped == stopCurrentAudio(t)
         IN [stopped EXCEPT
                !.isLoading = TRUE,
                !.interrupted = 0,
                !.procs = @ @@ (FreeId(@) :>
                              [pc |-> "awaitResponse", audio |-> 0])]

\* the rest of the try block once the audio is dealt with, and finally:
\* addToHistory, resetRetry, setLoading(false)
finish(t, s) ==
    [addToHistory(t) EXCEPT !.retryCount = 0, !.isLoading = FALSE,
                            !.procs = Without(@, s)]

\* the catch block and finally: a retry timer is set when canRetry() and the
\* error is no rate limit; setLoading(false)
fail(t, s, rateLimited) ==
    [t EXCEPT !.timers = IF canRetry(t) /\ ~rateLimited THEN @ + 1 ELSE @,
              !.isLoading = FALSE,
              !.procs = Without(@, s)]

\* the audio elements that nothing refers to any more are forgotten
Collect(t) ==
    LET kept == {a \in DOMAIN t.audios :
                    \/ a = t.currentAudio
                    \/ ~t.audios[a]
                    \/ \E i \in DOMAIN t.events : t.events[i].audio = a
                    \/ \E s \in DOMAIN t.procs : t.procs[s].audio = a}
    IN [t EXCEPT !.audios = [a \in kept |-> t.audios[a]],
                 !.interrupted = IF @ \in kept THEN @ ELSE 0]

\* the names of the server's half
server == <<rev, nodeEnv, pc, endpoint, body, validSymptoms, prompt, completion, aiText,
            speechArg, ttsText, voice, speech, calls, upstream, res, parked, running>>

\* something that happens in the page: the server's half stays as it is
Page(t) ==
    /\ tab' = Collect(t)
    /\ UNCHANGED server
    /\ UNCHANGED apart

Roomy == Len(tab.events) < MaxEvents

\* handleGeneralAskClick (the button, or Enter in the input): valid says
\* whether the text has at most 500 characters
AskClick(valid) ==
    /\ ~tab.hidden /\ tab.currentMode = "general"
    /\ ~tab.isLoading
    /\ tab.added < MaxAsked /\ Roomy
    /\ Page(process(tab, valid))

\* handleSymptomSubmission with at least one symptom selected
SymptomSubmit ==
    /\ ~tab.hidden /\ tab.currentMode = "symptom"
    /\ ~tab.isLoading
    /\ tab.added < MaxAsked /\ Roomy
    /\ Page(process(tab, TRUE))

\* the await of sendGeneralMessage / sendSymptomCheck settles.  outcome:
\*   "audio"     success with audioData; the audio is created and plays
\*   "blocked"   success with audioData; audio.play() is rejected
\*   "text"      success without audio (isFallback, or no audioData)
\*   "error"     success: false, an HTTP error, a network error, a timeout
\*   "rateLimit" an error whose message contains 'rate limit'
ResponseArrives(s, outcome) ==
    /\ s \in DOMAIN tab.procs
    /\ tab.procs[s].pc = "awaitResponse"
    /\ outcome = "audio" => Roomy
    /\ (outcome = "error" /\ canRetry(tab)) => tab.timers < MaxTimers
    /\ LET a == FreeId(tab.audios)
           made == [tab EXCEPT !.audios = @ @@ (a :> TRUE)]
           current == setCurrentAudio(made, a)
       IN Page(CASE outcome = "audio" ->
                      [play(current, a) EXCEPT !.procs[s].pc = "awaitAudio",
                                               !.procs[s].audio = a]
                 [] outcome = "blocked" -> finish(current, s)
                 [] outcome = "text" -> finish(tab, s)
                 [] outcome = "error" -> fail(tab, s, FALSE)
                 [] OTHER -> fail(tab, s, TRUE))

\* an audio plays to its end: the element is paused again, its pause and
\* ended listeners run, and the promise of playAudio resolves
AudioEnds(a) ==
    /\ a \in DOMAIN tab.audios
    /\ ~tab.audios[a]
    /\ \A i \in DOMAIN tab.events : tab.events[i].audio # a
    /\ LET stopped == [tab EXCEPT !.audios[a] = TRUE, !.isPlaying = FALSE,
                                  !.interrupted = IF @ = a THEN 0 ELSE @]
           awaiting == {s \in DOMAIN tab.procs :
                           tab.procs[s].pc = "awaitAudio" /\ tab.procs[s].audio = a}
       IN Page(IF awaiting = {} THEN stopped
               ELSE finish(stopped, CHOOSE s \in awaiting : TRUE))

\* a queued play or pause event is dispatched, the oldest of its element:
\* the listener calls appState.setPlaying
MediaEvent(i) ==
    /\ i \in DOMAIN tab.events
    /\ \A j \in 1..(i - 1) : tab.events[j].audio # tab.events[i].audio
    /\ Page([tab EXCEPT
                !.isPlaying = (tab.events[i].kind = "play"),
                !.events = SubSeq(@, 1, i - 1) \o SubSeq(@, i + 1, Len(@))])

\* toggleAudio
ToggleClick ==
    /\ ~tab.hidden /\ tab.currentAudio # 0 /\ Roomy
    /\ Page([(IF tab.audios[tab.currentAudio] THEN play(tab, tab.currentAudio)
                                              ELSE pause(tab, tab.currentAudio))
             EXCEPT !.interrupted = 0])

\* stopAudio
StopClick ==
    /\ ~tab.hidden /\ tab.currentAudio # 0 /\ Roomy
    /\ Page([pause(tab, tab.currentAudio) EXCEPT !.interrupted = 0])

\* switchMode
SwitchMode(mode) ==
    /\ ~tab.hidden /\ Roomy
    /\ Page([stopCurrentAudio([tab EXCEPT !.currentMode = mode])
             EXCEPT !.interrupted = 0])

\* the callback of the setTimeout in the catch block: confirm(), then
\* incrementRetry and the call again, or resetRetry
RetryTimerFires(confirmed) ==
    /\ tab.timers > 0
    /\ tab.added < MaxAsked /\ Roomy
    /\ LET popped == [tab EXCEPT !.timers = @ - 1]
       IN Page(IF confirmed
               THEN process([popped EXCEPT !.retryCount = @ + 1], TRUE)
               ELSE [popped EXCEPT !.retryCount = 0])

\* handleVisibilityChange with document.hidden
Hide ==
    /\ ~tab.hidden /\ Roomy
    /\ LET playing == tab.currentAudio # 0 /\ ~tab.audios[tab.currentAudio]
       IN Page([(IF playing THEN pause(tab, tab.currentAudio) ELSE tab)
                EXCEPT !.hidden = TRUE,
                       !.interrupted = IF playing THEN tab.currentAudio ELSE 0])

\* handleVisibilityChange with the page shown again
Show ==
    /\ tab.hidden /\ Len(tab.events) <= MaxEvents
    /\ LET resume == /\ tab.currentAudio # 0
                     /\ tab.audios[tab.currentAudio]
                     /\ tab.isPlaying
       IN Page([(IF resume THEN play(tab, tab.currentAudio) ELSE tab)
                EXCEPT !.hidden = FALSE])

Outcomes == {"audio", "blocked", "text", "error", "rateLimit"}

AnyResponseArrives == \E s \in DOMAIN tab.procs : \E o \in Outcomes : ResponseArrives(s, o)

AnyAudioEnds == \E a \in DOMAIN tab.audios : AudioEnds(a)

AnyMediaEvent == \E i \in DOMAIN tab.events : MediaEvent(i)

InitBrowser == Init /\ rev = "v3.1" /\ nodeEnv = "production"

NextBrowser ==
    \/ \E valid \in BOOLEAN : AskClick(valid)
    \/ SymptomSubmit
    \/ AnyResponseArrives
    \/ AnyAudioEnds
    \/ AnyMediaEvent
    \/ ToggleClick
    \/ StopClick
    \/ \E mode \in {"general", "symptom"} : SwitchMode(mode)
    \/ \E confirmed \in BOOLEAN : RetryTimerFires(confirmed)
    \/ Hide
    \/ Show

BrowserSpec == InitBrowser /\ [][NextBrowser]_vars

\* every request is answered or aborted by the timer of makeRequest, queued
\* events are dispatched, and an audio that plays, be it with interruptions,
\* reaches its end; nothing is assumed of the user
FairBrowserSpec ==
    BrowserSpec /\ WF_vars(AnyResponseArrives) /\ WF_vars(AnyMediaEvent)
                /\ SF_vars(AnyAudioEnds)


(***************************************************************************)
KnownSymptomCodes == DOMAIN SYMPTOM_DESCRIPTIONS

IsKnownCode(x) == x.type = "string" /\ x.v \in KnownSymptomCodes

\* body.text is a string with at least one character that is no whitespace
WellFormedChat == endpoint = "chat" /\ body.text.type = "string" /\ body.text.str.len > 0

\* body.symptoms is an array with at least one code of the catalog
WellFormedSymptoms ==
    /\ endpoint = "symptom"
    /\ body.symptoms.type = "array"
    /\ \E i \in DOMAIN body.symptoms.items : IsKnownCode(body.symptoms.items[i])

InputWellFormed == WellFormedChat \/ WellFormedSymptoms

Responded == pc = "done"

CompletionFailed == completion.kind \in {"throw", "non2xx", "badjson", "nochoices"}

\* the speech call failed, or the text was too short for it to be made
SpeechFailed ==
    \/ speech.kind \in {"throw", "non2xx"}
    \/ speech.kind = "ok" /\ speech.bytes = 0
    \/ Responded /\ res.status = 200 /\ speech.kind = "none"

\* the text that stands in for a failed completion, by revision and mode
FallbackProviderText(r, mode) ==
    CASE r \in {"v3.1", "v3.1b"} -> CONNECTION_FALLBACK
      [] r = "v5.0" -> IF mode = "symptom" THEN PERFECT_SYMPTOM_FALLBACK_v50
                                           ELSE PERFECT_GENERAL_FALLBACK_v50
      [] r = "v5.1" -> IF mode = "symptom" THEN PERFECT_SYMPTOM_FALLBACK_v51
                                           ELSE PERFECT_GENERAL_FALLBACK_v51

RECURSIVE KnownSubsequence(_)
\* the elements of a list that are codes of the catalog, in the list's order
KnownSubsequence(items) ==
    IF items = << >> THEN << >>
    ELSE (IF IsKnownCode(Head(items)) THEN <<Head(items)>> ELSE << >>)
         \o KnownSubsequence(Tail(items))

(***************************************************************************)
(* C1: a request whose input passes validation is answered 200 with        *)
(* success:true whatever the completion call and the speech call do; it    *)
(* never gets a 4xx or 5xx.                                                *)
(***************************************************************************)
C1_AcceptedRequestSucceeds ==
    InputWellFormed =>
        /\ res.status \in {0, 200}
        /\ Responded => (res.status = 200 /\ res.success)

C1_Witness ==
    /\ Responded /\ InputWellFormed
    /\ completion.kind = "throw" /\ speech.kind = "throw"
    /\ res.status = 200 /\ res.success

(***************************************************************************)
(* C2: when the completion call fails (network error, non-2xx, malformed   *)
(* body or a body without choices[0].message) generateResponse does not    *)
(* throw; the text is the fallback text of the request's mode and the      *)
(* request answers success:true with that text.                            *)
(***************************************************************************)
C2_CompletionFailureGivesModeFallback ==
    (InputWellFormed /\ CompletionFailed) =>
        /\ res.status # 500
        /\ aiText = FallbackProviderText(rev, Mode(endpoint))
        /\ Responded => (res.success /\ res.data.text = FallbackProviderText(rev, Mode(endpoint)))

C2_Witness ==
    /\ Responded /\ endpoint = "symptom" /\ rev = "v5.1"
    /\ completion.kind = "non2xx"
    /\ res.success /\ res.data.text = PERFECT_SYMPTOM_FALLBACK_v51

(***************************************************************************)
(* C3: on /api/chat, a completion that succeeds with a text that has the   *)
(* required opening and word count but no referral phrase is answered      *)
(* with the fixed general-mode fallback text, not the generated text.      *)
(***************************************************************************)
LacksReferral(t) ==
    /\ t.start = "I understand" /\ t.lead = 0 /\ ~t.comma
    /\ t.words >= 60 /\ t.words <= 90
    /\ t.phrases = {}

C3_InvalidShapeGivesFallback ==
    (Responded /\ WellFormedChat /\ completion.kind = "ok" /\ LacksReferral(completion.content)) =>
        /\ res.data.text = FallbackProviderText(rev, "general")
        /\ res.data.text.wording # completion.content.wording

\* the same statement for the revisions that validate the response
C3_HoldsWhereValidated ==
    rev \in {"v5.0", "v5.1"} => C3_InvalidShapeGivesFallback

C3_Witness ==
    /\ Responded /\ WellFormedChat /\ rev = "v5.0"
    /\ completion.kind = "ok" /\ LacksReferral(completion.content)
    /\ res.data.text = PERFECT_GENERAL_FALLBACK_v50

(***************************************************************************)
(* C4: when the speech call fails the request still answers success:true   *)
(* with audioData null, isFallback true and the text that was given to the *)
(* speech call; /api/symptom-check still carries analyzedSymptoms.         *)
(***************************************************************************)
C4_SpeechFailureGivesTextOnly ==
    (Responded /\ InputWellFormed /\ SpeechFailed) =>
        /\ res.status = 200 /\ res.success
        /\ res.data.audioData = "null"
        /\ res.data.isFallback
        /\ res.data.text = speechArg
        /\ res.data.text # NoText
        /\ endpoint = "symptom" =>
              (res.data.hasAnalyzedSymptoms /\ res.data.analyzedSymptoms = validSymptoms)

C4_Witness ==
    /\ Responded /\ endpoint = "symptom"
    /\ body.symptoms.items = <<JsString("acne"), JsString("weight_gain")>>
    /\ speech.kind = "throw"
    /\ res.success /\ res.data.audioData = "null" /\ res.data.isFallback
    /\ res.data.analyzedSymptoms = <<JsString("acne"), JsString("weight_gain")>>

(***************************************************************************)
(* C5: in a success response isFallback is true exactly when audioData is  *)
(* null; a fallback text with working speech has isFallback false and      *)
(* audio.                                                                  *)
(***************************************************************************)
C5_IsFallbackMeansNoAudio ==
    (Responded /\ res.status = 200) =>
        /\ res.data.isFallback <=> res.data.audioData = "null"
        /\ (speech.kind = "ok" /\ speech.bytes > 0) =>
              (~res.data.isFallback /\ res.data.audioData \notin {"null", "undefined", ""})

C5_Witness ==
    /\ Responded /\ res.status = 200
    /\ CompletionFailed /\ res.data.text = FallbackProviderText(rev, Mode(endpoint))
    /\ speech.kind = "ok" /\ speech.bytes > 0
    /\ ~res.data.isFallback /\ res.data.audioData = "<base64>"

(***************************************************************************)
(* C6: /api/chat answers 400 with success:false when body.text is missing, *)
(* is no string, is empty or is only whitespace.                           *)
(***************************************************************************)
C6_BadChatInputIs400 ==
    (endpoint = "chat" /\ ~WellFormedChat) =>
        (Responded /\ res.status = 400 /\ ~res.success)

C6_Witness ==
    /\ endpoint = "chat" /\ body.text.type = "string"
    /\ Length(body.text.str) > 0 /\ body.text.str.len = 0
    /\ res.status = 400 /\ ~res.success

(***************************************************************************)
(* C7: /api/symptom-check answers 400 when body.symptoms is missing, is no *)
(* array, is empty or holds no string key of the catalog.                  *)
(***************************************************************************)
C7_BadSymptomsIs400 ==
    (endpoint = "symptom" /\ ~WellFormedSymptoms) =>
        (Responded /\ res.status = 400 /\ ~res.success)

C7_Witness ==
    /\ endpoint = "symptom" /\ body.symptoms.type = "array"
    /\ Len(body.symptoms.items) = 2
    /\ body.symptoms.items[1] = JsString("toString")
    /\ res.status = 400 /\ ~res.success

(***************************************************************************)
(* C8: analyzedSymptoms is the subsequence of the submitted list made of   *)
(* the catalog's codes, in submission order, the prompt is built from the  *)
(* same list, and this does not depend on the speech call.                 *)
(***************************************************************************)
C8_AnalyzedSymptomsAreTheKnownOnes ==
    WellFormedSymptoms =>
        LET expected == KnownSubsequence(body.symptoms.items)
        IN /\ validSymptoms = expected
           /\ Len(prompt.symptoms) = Len(expected)
           /\ \A i \in DOMAIN expected : prompt.symptoms[i] = SYMPTOM_DESCRIPTIONS[expected[i].v]
           /\ (Responded /\ res.status = 200) =>
                 (res.data.hasAnalyzedSymptoms /\ res.data.analyzedSymptoms = expected)

C8_Witness ==
    /\ Responded /\ endpoint = "symptom"
    /\ body.symptoms.items = <<JsString("weight_gain"), JsString("moonburn"), JsString("acne")>>
    /\ speech.kind = "non2xx"
    /\ res.data.analyzedSymptoms = <<JsString("weight_gain"), JsString("acne")>>

(***************************************************************************)
(* C9 as stated: for every /api/chat text longer than 500 characters the   *)
(* user message given to the completion call has exactly 500 characters.   *)
(***************************************************************************)
C9_LongTextIsCutTo500 ==
    (WellFormedChat /\ Length(body.text.str) > 500) => Length(prompt.user) = 500

(***************************************************************************)
(* C9 amended: the text is trimmed first; when the trimmed text is longer  *)
(* than 500 characters the user message has exactly 500, otherwise it is   *)
(* the whole trimmed text.                                                 *)
(***************************************************************************)
C9_TrimmedTextIsCutTo500 ==
    WellFormedChat =>
        /\ body.text.str.len > 500 => Length(prompt.user) = 500
        /\ body.text.str.len <= 500 => Length(prompt.user) = body.text.str.len

C9_Witness ==
    /\ WellFormedChat /\ body.text.str.lead = 50 /\ body.text.str.len = 550
    /\ calls = <<"completion">>
    /\ Length(prompt.user) = 500

(***************************************************************************)
(* C10: a request rejected with 400 is over at once: no completion call    *)
(* and no speech call is made for it.                                      *)
(***************************************************************************)
C10_RejectedRequestMakesNoCall ==
    res.status = 400 => (Responded /\ calls = << >>)

C10_Witness ==
    /\ res.status = 400 /\ endpoint = "symptom"
    /\ body.symptoms.type = "array" /\ Len(body.symptoms.items) = 3
    /\ calls = << >>

(***************************************************************************)
(* C11: within one request the speech call is started only after the       *)
(* completion call has finished or failed, the two calls are never both    *)
(* outstanding, and the text given to the speech call is the final text of *)
(* the request (generated or fallback), the one the response carries; the  *)
(* final text is stated for /api/chat and /api/symptom-check.               *)
(***************************************************************************)
CallsMade(c) == Cardinality({i \in DOMAIN calls : calls[i] = c})

CompletionInFlight == CallsMade("completion") > 0 /\ completion.kind = "none"

SpeechInFlight == CallsMade("speech") > 0 /\ speech.kind = "none"

C11_SpeechFollowsCompletion ==
    /\ ~(CompletionInFlight /\ SpeechInFlight)
    /\ CallsMade("speech") > 0 =>
          /\ completion.kind # "none"
          /\ calls[1] = "completion"
          /\ endpoint \in {"chat", "symptom"} => speechArg = aiText
          /\ ttsText = Substring(Trim(speechArg), MaxSpeechChars)
          /\ (endpoint \in {"chat", "symptom"} /\ Responded /\ res.status = 200)
                 => res.data.text = speechArg

C11_Witness ==
    /\ pc = "awaitSpeech" /\ SpeechInFlight /\ ~CompletionInFlight
    /\ completion.kind = "throw"
    /\ calls = <<"completion", "speech">>
    /\ speechArg = FallbackProviderText(rev, Mode(endpoint))

(***************************************************************************)
(* C12: for every accepted request the completion endpoint is called       *)
(* exactly once and the speech endpoint is called exactly once: no call is *)
(* repeated after a failure and none is skipped.                           *)
(***************************************************************************)
C12_EachCallIsMadeExactlyOnce ==
    InputWellFormed =>
        /\ CallsMade("completion") = 1
        /\ CallsMade("speech") <= 1
        /\ Responded => CallsMade("speech") = 1

\* the part of C12 about repetition: no endpoint is called a second time
C12_NoCallIsRepeated ==
    /\ CallsMade("completion") <= 1
    /\ CallsMade("speech") <= 1
    /\ (endpoint \in {"chat", "symptom"} /\ Responded /\ res.status = 200) =>
          (CallsMade("speech") = 0 <=> Length(Trim(res.data.text)) < MinSpeechChars)

(***************************************************************************)
(* C13: every accepted request eventually reaches a responded state, also  *)
(* when an outbound call never returns: the call is bounded by a timeout   *)
(* and then counts as a failure.                                           *)
(***************************************************************************)
C13_AcceptedRequestIsAnswered == InputWellFormed ~> Responded

\* the requests whose calls are all answered do get their response
C13_AnsweredCallsGiveAResponse ==
    (InputWellFormed /\ [](upstream # "silent")) ~> Responded

(***************************************************************************)
(* Vocabulary of the properties of validateResponse                        *)
(***************************************************************************)
Validated == pc = "validated"

IsSymptomMode == endpoint = "symptom"

\* no issue flag of a validation result is set
NoIssues(v) ==
    /\ ~v.issues.formatting /\ ~v.issues.wrongStart /\ ~v.issues.noHealthcareRec
    /\ ~v.issues.wrongLength /\ ~v.issues.wrongSentenceCount

\* the opening of the mode, in the letter case the prompts ask for
RequiredOpening == IF IsSymptomMode THEN "Thank you for sharing" ELSE "I understand"

\* the word-count band of the revision and mode
MinWordsOf(r, symptom) == IF r = "v5.1" THEN 50 ELSE IF symptom THEN 70 ELSE 60

MaxWordsOf(r, symptom) == IF r = "v5.1" THEN 110 ELSE IF symptom THEN 100 ELSE 90

\* the sentences v5.0 asks for
SentencesOf(symptom) == IF symptom THEN 4 ELSE 3

\* the sentence rule is met, where the revision has one
SentenceRuleMet == rev = "v5.0" => aiText.sentences = SentencesOf(IsSymptomMode)

(***************************************************************************)
(* C14: for each mode the fixed fallback text of the mode passes           *)
(* validateResponse for that mode with no failed rule.                     *)
(***************************************************************************)
C14_FallbackTextsAreValid ==
    (Validated /\ aiText = FallbackProviderText(rev, Mode(endpoint))) =>
        (validation.isValid /\ NoIssues(validation))

\* the fallback texts of v5.1 do pass the validateResponse of v5.1
C14_FallbackTextsAreValid_v51 == rev = "v5.1" => C14_FallbackTextsAreValid

(***************************************************************************)
(* C15 as stated: isValid is true exactly when no issue flag is set, and   *)
(* it is the AND of exactly four rules: opening phrase, closing phrase,    *)
(* word-count band and (where enabled) forbidden characters.               *)
(***************************************************************************)
C15_ValidIffFourRulesPass ==
    Validated =>
        /\ validation.isValid <=> NoIssues(validation)
        /\ validation.isValid <=>
              /\ ~validation.issues.wrongStart
              /\ ~validation.issues.noHealthcareRec
              /\ ~validation.issues.wrongLength
              /\ ~validation.issues.formatting

(***************************************************************************)
(* C15 amended: isValid is true exactly when no issue flag is set; the     *)
(* rules are the opening phrase, the closing phrase and the word-count     *)
(* band, and in v5.0 also the forbidden characters and the exact sentence  *)
(* count (3 in general mode, 4 in symptom mode); v5.1 has neither of the   *)
(* last two.                                                               *)
(***************************************************************************)
C15_ValidIffNoIssue ==
    Validated =>
        /\ validation.isValid <=> NoIssues(validation)
        /\ validation.issues.wrongLength <=>
              (validation.wordCount < MinWordsOf(rev, IsSymptomMode)
               \/ validation.wordCount > MaxWordsOf(rev, IsSymptomMode))
        /\ validation.issues.formatting <=> (rev = "v5.0" /\ aiText.fmt # "none")
        /\ validation.issues.wrongSentenceCount <=> ~SentenceRuleMet
        /\ validation.isValid =>
              /\ ToLowerCase(aiText.start) = ToLowerCase(RequiredOpening)
              /\ aiText.phrases # {}

C15_Witness ==
    /\ Validated /\ rev = "v5.0" /\ ~IsSymptomMode
    /\ aiText.start = "I understand" /\ aiText.phrases = {"doctor"}
    /\ aiText.words = 60 /\ aiText.fmt = "none" /\ aiText.sentences = 4
    /\ ~validation.isValid
    /\ validation.issues.wrongSentenceCount /\ ~validation.issues.wrongLength

(***************************************************************************)
(* C16 as stated: a sanitized text with the correct opening and closing    *)
(* phrases and no forbidden characters is valid at exactly minWords and at *)
(* exactly maxWords of its mode, and invalid at minWords - 1 and at        *)
(* maxWords + 1.                                                           *)
(***************************************************************************)
WellPhrased ==
    /\ ~validation.issues.wrongStart /\ ~validation.issues.noHealthcareRec
    /\ aiText.fmt = "none"

C16_BandIsInclusive ==
    (Validated /\ WellPhrased) =>
        /\ aiText.words \in {MinWordsOf(rev, IsSymptomMode), MaxWordsOf(rev, IsSymptomMode)}
              => validation.isValid
        /\ aiText.words \in {MinWordsOf(rev, IsSymptomMode) - 1,
                              MaxWordsOf(rev, IsSymptomMode) + 1}
              => ~validation.isValid

(***************************************************************************)
(* C16 amended: the same, for the texts that also have the sentence count  *)
(* v5.0 asks for (3 in general mode, 4 in symptom mode); v5.1 asks for     *)
(* none.                                                                   *)
(***************************************************************************)
C16_BandIsInclusiveGivenSentences ==
    (Validated /\ WellPhrased /\ SentenceRuleMet) =>
        /\ aiText.words \in {MinWordsOf(rev, IsSymptomMode), MaxWordsOf(rev, IsSymptomMode)}
              => validation.isValid
        /\ aiText.words \in {MinWordsOf(rev, IsSymptomMode) - 1,
                              MaxWordsOf(rev, IsSymptomMode) + 1}
              => ~validation.isValid

C16_Witness ==
    /\ Validated /\ WellPhrased /\ rev = "v5.0" /\ IsSymptomMode
    /\ aiText.words = 100 /\ aiText.sentences = 4
    /\ validation.isValid /\ validation.wordCount = 100

(***************************************************************************)
(* C17 as stated: the opening-phrase rule is case-sensitive: a text that   *)
(* opens with "i understand" or "thank you for sharing" fails validation,  *)
(* and the opening of one mode is not accepted in the other.               *)
(***************************************************************************)
LowerCaseOpenings == {"i understand", "thank you for sharing"}

OtherModeOpening == IF IsSymptomMode THEN "I understand" ELSE "Thank you for sharing"

C17_OpeningIsCaseSensitive ==
    Validated =>
        /\ aiText.start \in LowerCaseOpenings =>
              (~validation.isValid /\ validation.issues.wrongStart)
        /\ aiText.start = OtherModeOpening =>
              (~validation.isValid /\ validation.issues.wrongStart)

(***************************************************************************)
(* C17 amended: the opening-phrase rule is case-sensitive in v5.0; v5.1    *)
(* compares the trimmed, lower-cased text, so there a lower-case opening   *)
(* of the right mode passes the rule. In both, the opening of one mode is  *)
(* not accepted in the other.                                              *)
(***************************************************************************)
C17_OpeningByRevision ==
    Validated =>
        /\ (rev = "v5.0" /\ aiText.start \in LowerCaseOpenings) =>
              (~validation.isValid /\ validation.issues.wrongStart)
        /\ (rev = "v5.1" /\ aiText.start = ToLowerCase(RequiredOpening)) =>
              ~validation.issues.wrongStart
        /\ ToLowerCase(aiText.start) = ToLowerCase(OtherModeOpening) =>
              (~validation.isValid /\ validation.issues.wrongStart)
        /\ (aiText.start = RequiredOpening /\ aiText.lead = 0) =>
              ~validation.issues.wrongStart

C17_Witness ==
    /\ Validated /\ rev = "v5.1" /\ IsSymptomMode
    /\ aiText.start = "thank you for sharing"
    /\ validation.isValid

(***************************************************************************)
(* C18 as stated: the closing-phrase rule is satisfied exactly when the    *)
(* text contains "healthcare provider", "medical professional", "doctor"   *)
(* or "consult"; a text whose only referral wording is "consult"           *)
(* satisfies it.                                                           *)
(***************************************************************************)
C18_ReferralPhrases ==
    Validated =>
        (~validation.issues.noHealthcareRec <=>
            aiText.phrases \cap {"healthcare provider", "medical professional",
                                 "doctor", "consult"} # {})

(***************************************************************************)
(* C18 amended: the rule is satisfied exactly when the text contains       *)
(* "healthcare provider" or "medical professional", or "doctor" (v5.0      *)
(* only), or "consult a doctor" or "see a doctor" (v5.1; both contain      *)
(* "doctor", so v5.0 accepts them too). "consult" alone satisfies it in    *)
(* neither revision, and "doctor" alone does not in v5.1.                  *)
(***************************************************************************)
C18_ReferralPhrasesByRevision ==
    Validated =>
        /\ aiText.phrases \cap {"healthcare provider", "medical professional"} # {}
              => ~validation.issues.noHealthcareRec
        /\ aiText.phrases = {"consult"} => validation.issues.noHealthcareRec
        /\ aiText.phrases = {"doctor"} => (validation.issues.noHealthcareRec <=> rev = "v5.1")
        /\ aiText.phrases \cap {"consult a doctor", "see a doctor"} # {}
              => ~validation.issues.noHealthcareRec
        /\ aiText.phrases = {} => validation.issues.noHealthcareRec

C18_Witness ==
    /\ Validated /\ aiText.phrases = {"consult"}
    /\ aiText.start = RequiredOpening /\ aiText.lead = 0
    /\ aiText.words = 70 /\ aiText.fmt = "none" /\ SentenceRuleMet
    /\ validation.issues.noHealthcareRec /\ ~validation.isValid

(***************************************************************************)
(* C19: the sanitizer is idempotent: sanitizing a sanitized text changes   *)
(* nothing, for every text, also when emphasis markers span a line break,  *)
(* when a list marker is uncovered by another removal, or when a leading   *)
(* comma is uncovered by the removal of emphasis markers.                  *)
(***************************************************************************)
C19_SanitizeIsIdempotent ==
    pc = "resanitized" => chars.twice = chars.once

\* the texts without asterisk, hyphen and comma are left fixed by a second
\* run in every revision
C19_IdempotentOnPlainTexts ==
    (pc = "resanitized" /\ \A i \in DOMAIN chars.raw : chars.raw[i] \notin {"*", "-", ","})
        => chars.twice = chars.once

(***************************************************************************)
(* C20: the text that leaves the sanitizing step (the clean-up chain and   *)
(* the repair of a wrong opening) is never longer than the generated text  *)
(* that entered it.                                                        *)
(***************************************************************************)
C20_SanitizingNeverLengthens ==
    (completion.kind = "ok" /\ pc \in {"awaitSpeech", "done"}
        /\ aiText.wording = completion.content.wording)
        => Length(aiText) <= Length(completion.content)

\* the replace chains themselves never lengthen a text
C20_ChainNeverLengthens ==
    pc \in {"sanitized", "resanitized"} =>
        /\ Len(chars.once) <= Len(chars.raw)
        /\ Len(chars.twice) <= Len(chars.once)

(***************************************************************************)
(* C22: outside development mode no 5xx response of an /api endpoint       *)
(* carries the message of the error that was caught, neither as error nor  *)
(* as details.                                                             *)
(***************************************************************************)
InternalMessages ==
    {TypeErrorMessage, CompletionErrorMessage, TooShortMessage}
    \cup {SpeechErrorMessage(k) : k \in {"throw", "non2xx", "ok"}}

C22_NoInternalMessageOutsideDevelopment ==
    (Responded /\ res.status >= 500 /\ nodeEnv # "development")
        => /\ res.error \notin InternalMessages
           /\ res.details \notin InternalMessages

\* the catch blocks of /api/chat and /api/symptom-check give details only
\* in development mode
C22_DetailsOnlyInDevelopment ==
    (Responded /\ res.status >= 500 /\ endpoint \in {"chat", "symptom"}
        /\ nodeEnv # "development")
        => res.error \notin InternalMessages /\ res.details = "undefined"

(***************************************************************************)
(* C21: two requests whose handlers interleave at their awaits do not      *)
(* interfere: the response to each is the one that its own body, the       *)
(* outcomes of its own calls and the startup configuration determine.      *)
(***************************************************************************)
\* the response that a body and the outcomes of its two calls determine
OwnResponse(r, ep, b, co, so) ==
    LET start == IF ep = "chat" THEN ChatStart(b) ELSE SymptomStart(b)
        symptoms == IF ep = "chat" THEN << >> ELSE start.validSymptoms
        gen == IF ep = "chat" THEN generateResponse(r, co, FALSE)
                              ELSE generateSymptomResponse(r, co, symptoms)
    IN IF start.pc = "done" THEN start.res
       ELSE IF SpeechTooShort(gen.text)
            THEN Answer(ep, SpeechNotAttempted, gen.text, symptoms)
            ELSE Answer(ep, generateSpeech(so, VoiceIndex(ep)), gen.text, symptoms)

Independent(l) ==
    IF l.pc = "done" THEN l.res = OwnResponse(rev, l.endpoint, l.body, l.completion, l.speech)
                     ELSE l.res = NoResponse

C21_RequestsDoNotInterfere == Independent(Locals) /\ Independent(parked)

\* one request is answered while the other, with another text, waits for
\* its speech call
C21_Witness ==
    /\ pc = "done" /\ res.status = 200 /\ speech.kind = "ok"
    /\ parked.pc = "awaitSpeech"
    /\ parked.aiText.wording # aiText.wording
    /\ parked.endpoint # endpoint

(***************************************************************************)
(* C26: the text that the speech endpoint is given to speak is at most     *)
(* 1000 characters long and is a prefix of the trimmed final text, while   *)
(* data.text of the response is the whole final text.                      *)
(***************************************************************************)
\* p is the beginning of t
IsPrefix(p, t) ==
    /\ p.wording = t.wording
    /\ p.lead = t.lead
    /\ Length(p) <= Length(t)
    /\ Length(p) = Length(t) => p = t

C26_SpokenTextIsCutTextIsWhole ==
    /\ CallsMade("speech") > 0 =>
          /\ Length(ttsText) <= MaxSpeechChars
          /\ IsPrefix(ttsText, Trim(aiText))
    /\ (endpoint \in {"chat", "symptom"} /\ Responded /\ res.status = 200) =>
          res.data.text = aiText

C26_Witness ==
    /\ Responded /\ res.status = 200 /\ res.data.audioData = "<base64>"
    /\ Length(ttsText) = MaxSpeechChars
    /\ Length(res.data.text) > MaxSpeechChars

\* the document carries the processed text: read back, the escaped text is
\* the processed text, character by character
C26_EscapingKeepsTheText ==
    /\ pc \in {"escaped", "read"} => Len(chars.once) >= Len(chars.raw)
    /\ pc = "read" => chars.twice = chars.raw

(***************************************************************************)
(* C29: in server.js the text that generateResponse returns, and so        *)
(* data.text of every success response, has at least 20 characters after   *)
(* trimming, whatever the completion call yields.                          *)
(***************************************************************************)
C29_TextHasTwentyCharacters ==
    rev = "v3.1" =>
        /\ completion.kind # "none" => Length(Trim(aiText)) >= MinResponseChars
        /\ (endpoint \in {"chat", "symptom"} /\ Responded /\ res.status = 200) =>
              Length(Trim(res.data.text)) >= MinResponseChars
        /\ (endpoint \in TestEndpoints /\ Responded /\ res.status = 200) =>
              Length(Trim(res.data.aiResponse)) >= MinResponseChars

\* a whitespace-only content is replaced and the replacement is returned
C29_Witness ==
    /\ rev = "v3.1" /\ Responded /\ res.status = 200
    /\ completion.kind = "ok"
    /\ completion.content.len = 0 /\ completion.content.lead > 0
    /\ res.data.text = ENHANCED_FALLBACK

\* the audio elements that are not paused
Playing == {a \in DOMAIN tab.audios : ~tab.audios[a]}

\* C23: at most one audio element plays at any time, and it is the current
\* one: an audio that stopped being current has been paused
C23_OneAudioPlays ==
    /\ Cardinality(Playing) <= 1
    /\ \A a \in Playing : a = tab.currentAudio

\* a new audio plays while the pause event of the one it replaced, which
\* was playing, is still queued
C23_Witness ==
    /\ tab.currentAudio \in Playing
    /\ \E i \in DOMAIN tab.events :
          /\ tab.events[i].audio # tab.currentAudio
          /\ tab.events[i].kind = "pause"

Least(a, b) == IF a < b THEN a ELSE b

\* C24: conversationHistory has at most 20 entries, and they are the last
\* ones added, in the order in which they were added
C24_HistoryIsTheLastTwenty ==
    LET h == tab.conversationHistory
    IN /\ Len(h) <= MaxHistory
       /\ Len(h) = Least(tab.added, MaxHistory)
       /\ \A i \in DOMAIN h : h[i] = tab.added - Len(h) + i

\* more than 20 entries have been added, so that the oldest were evicted
C24_Witness ==
    /\ tab.added > MaxHistory
    /\ Len(tab.conversationHistory) = MaxHistory
    /\ Head(tab.conversationHistory) > 1

\* C25: retryCount never exceeds maxRetries
C25_RetryCountWithinMaxRetries == tab.retryCount <= MaxRetries

\* the calls that wait for the answer to their request
InFlight == {s \in DOMAIN tab.procs : tab.procs[s].pc = "awaitResponse"}

C28_LoadingEnds == tab.isLoading ~> ~tab.isLoading

\* C30: the audio that handleVisibilityChange paused stays paused while the
\* page is hidden and plays again once the page is visible
C30_PausedWhenHiddenResumedWhenVisible ==
    tab.interrupted # 0 =>
        /\ tab.interrupted \in DOMAIN tab.audios
        /\ tab.audios[tab.interrupted] = tab.hidden

====
